---- MODULE Spec2Model ----
(***************************************************************************)
(* docker-monitor: the dashboard state machine (internal/tui), the stream  *)
(* lifecycle it drives against the Docker client (internal/docker) and the *)
(* write-behind statistics store (internal/storage).                       *)
(*                                                                         *)
(* The control loop is bubbletea's: Update handles one message at a time;  *)
(* every tea.Cmd it returns runs on a goroutine of its own and hands its   *)
(* result back as a message; a nil message is dropped; tea.Batch runs its  *)
(* commands concurrently, so messages of different tasks arrive in any     *)
(* order.  The variable tasks is the bag of these goroutines: a task is    *)
(* either still blocked (a waiter on a stream's channels, a list fetch, a  *)
(* backend call, the tick timer) or holds the message it will deliver.     *)
(***************************************************************************)
EXTENDS Integers, Sequences, FiniteSets, Bags, TLC

VARIABLES
    m,             \* tui.Model, the value threaded through Update
    statsStreams,  \* streams opened by Client.StreamContainerStats, by handle
    logStreams,    \* streams opened by Client.StreamContainerLogs, by handle
    tasks,         \* bag of command goroutines and the messages they hold
    quit,          \* tea.Quit was returned: the control loop has stopped
    writeChan,     \* Storage.writeChan, the queue Storage.Write feeds
    store,         \* the rest of storage.Storage and its writer goroutine
    calls,         \* Storage.Write calls made by the caller of the store
    reply,         \* what Storage.Query returned to its last caller
    main,          \* func main: where it stands, and its Docker client
    view           \* the series renderGraphPanel drew last

vars == <<m, statsStreams, logStreams, tasks, quit, writeChan, store, calls,
          reply, main, view>>
tui == <<m, statsStreams, logStreams, tasks, quit>>

\* the process has ended: none of its goroutines takes another step
Exited == main.pc = "exit"

---------------------------------------------------------------------------
(* Bounds of the model. *)

\* streams of one kind the backend is asked to open in one run
MaxStreams == 2
\* items the backend's streams of one kind emit in one run, all together
MaxItems == 1
\* streams of one kind that end by themselves (an error, the container
\* stopping) before anybody cancelled them
MaxSelfEnds == 1
\* backend calls (list fetches, start/stop/restart) in flight at once
MaxPending == 1
\* list fetches the R key may start on top of those
MaxManual == 1
\* capacity of Storage.writeChan, 1000 in the source
QueueCap == 3
\* buffer length at which the writer flushes, 50 in the source
BatchSize == 2
\* entries the caller of the store hands to Storage.Write in one run
MaxWrites == 7
\* length the log buffer is cut to, 1000 in the source
MaxLogs == 2
\* Model.maxDataPoints, 150 in the source
MaxDataPoints == 2

\* StreamContainerStats fetches the process list on item 1 and every 10th
ProcEvery == 10

ContainerIDs == {"a", "b"}
States == {"running", "exited"}

\* model.Container, reduced to the two fields Update reads
Container == [ID : ContainerIDs, State : States]

\* the lists ListContainers can return: container IDs are unique and the
\* backend lists the containers in one fixed order
ContainerLists ==
    {<<>>} \cup {<<c>> : c \in Container}
           \cup {<<c, d>> : <<c, d>> \in {p \in Container \X Container : p[1].ID = "a" /\ p[2].ID = "b"}}

\* a nil channel, a nil cancel func, a nil process list
Nil == 0

\* *model.Stats: the sample number seq of stream src; procs is its
\* Processes list: 0 when it is empty, else the number of the item whose
\* fetch produced the list.  NilStats is the nil pointer.
Stats(src, seq, procs) == [src |-> src, seq |-> seq, procs |-> procs]
NilStats == Stats(Nil, 0, 0)
\* the values the backend reports in sample seq of stream src: none reports
\* 0, and no two of a stream's first nine samples report the same
CPUPercent(stats) == 10 * stats.src + stats.seq
MemoryPercent(stats) == 100 + CPUPercent(stats)

\* model.LogEntry number seq of stream src; its Message is never empty,
\* parseLogLine's invalid lines are skipped by the producer
LogEntry(src, seq) == [src |-> src, seq |-> seq]

Zeros == [i \in 1..MaxDataPoints |-> 0]

---------------------------------------------------------------------------
(* The Docker client's streams. *)

\* StreamContainerStats / StreamContainerLogs: fresh channels, a fresh context
\*   id        the container the stream was opened for
\*   cancelled the context's cancel func has been called
\*   closed    the producer goroutine has returned: both channels are closed
\*   err       an error sits in the (1-buffered) error channel
\*   emitted   items handed over the unbuffered item channel so far
\*   procs     lastProcesses of the stats producer: 0 while it is empty,
\*             else the number of the item whose fetch produced it
\*   self      the producer returned before the context was cancelled
NewStream(id) ==
    [id |-> id, cancelled |-> FALSE, closed |-> FALSE, err |-> FALSE,
     emitted |-> 0, procs |-> 0, self |-> FALSE]

RECURSIVE TotalEmitted(_)
TotalEmitted(streams) ==
    IF Len(streams) = 0 THEN 0
    ELSE streams[1].emitted + TotalEmitted(Tail(streams))

SelfEnds(streams) == Cardinality({h \in DOMAIN streams : streams[h].self})

\* the producer may return now: its context is cancelled, or the backend
\* ends the stream (within the bound on such endings)
MayReturn(streams, h) ==
    /\ ~streams[h].closed
    /\ streams[h].cancelled \/ SelfEnds(streams) < MaxSelfEnds

OpenStream(streams, id) == Append(streams, NewStream(id))

\* the cancel func as it would be if it reported a context that is already
\* finished: a call after the producer returned leaves an error to be read
CancelStreamReportsEnded(streams, h) ==
    IF h = Nil THEN streams
    ELSE [streams EXCEPT ![h].cancelled = TRUE,
                         ![h].err = @ \/ streams[h].closed]

\* context.CancelFunc: only marks the context done; calling it again, or
\* after the producer has returned, changes nothing more
CancelStream(streams, h) ==
    IF h = Nil THEN streams ELSE [streams EXCEPT ![h].cancelled = TRUE]

---------------------------------------------------------------------------
(* Tasks. *)

Task(type, stream, val, procs) ==
    [type |-> type, stream |-> stream, val |-> val, procs |-> procs]

\* waitForStats(statsChan, errChan), blocked in its select
WaitStats(h) == Task("waitStats", h, 0, 0)
\* waitForLogs(logsChan, errChan) and Model.waitForLogs, blocked in select
WaitLogs(h) == Task("waitLogs", h, 0, 0)
\* fetchContainers, before client.ListContainers has answered, started
\* while no other list request was running
Fetch == Task("fetch", Nil, 0, 0)
\* the same command started while an earlier list request was still running
LaterFetch == Task("fetch", Nil, 1, 0)
FetchTasks == {Fetch, LaterFetch}
\* the command fetchContainers(m.client) as the control loop starts it next
\* to the goroutines of bag
fetchContainers(bag) ==
    IF \E t \in BagToSet(bag) : t.type = "fetch" THEN LaterFetch ELSE Fetch
\* startContainer / stopContainer / restartContainer, before the call returns
\* of the container id, which the task carries as a number
Target(id) == IF id = "a" THEN 1 ELSE 2
Action(verb, id) == Task(verb, Nil, Target(id), 0)
Verbs == {"Started", "Stopped", "Restarted"}
\* tickCmd: tea.Tick(2s)
Tick == Task("tick", Nil, 0, 0)

\* val of a stream message: the item's sequence number, or one of these
ZeroVal == 0
ErrVal == -1

Add(bag, t) == bag (+) SetToBag({t})
Remove(bag, t) == bag (-) SetToBag({t})
AddAll(bag, ts) == IF Len(ts) = 0 THEN bag
                   ELSE IF Len(ts) = 1 THEN Add(bag, ts[1])
                   ELSE Add(Add(bag, ts[1]), ts[2])

\* the tasks of tasks whose type is one of types
Count(types) ==
    LET dom == {t \in BagToSet(tasks) : t.type \in types}
        RECURSIVE Sum(_)
        Sum(S) == IF S = {} THEN 0
                  ELSE LET t == CHOOSE x \in S : TRUE
                       IN CopiesIn(t, tasks) + Sum(S \ {t})
    IN Sum(dom)

\* backend calls in flight
Pending == Count({"fetch"} \cup Verbs)

---------------------------------------------------------------------------
(* internal/storage: Storage.Write, the writer goroutine, Close *)

\* Write as it would be if a full queue made room by dropping its oldest
\* entry
WriteDropsOldest(q, entry) ==
    IF Len(q) < QueueCap THEN Append(q, entry) ELSE Append(Tail(q), entry)

\* select { case s.writeChan <- entry: default: }
Write(q, entry) == IF Len(q) < QueueCap THEN Append(q, entry) ELSE q

\* NewStorage: an open database, an empty buffer in a running writer
\*   buffer      the writer goroutine's local buffer
\*   rows        the rows of container_stats, in insertion order
\*   closeChan   close(s.closeChan) has run
\*   writerDone  the writer goroutine has returned
\*   dbClosed    s.db.Close() has run
\*   cleaner     the cleanup goroutine: waiting for its first tick, deleting
\*               (inside batchDelete), or finished with a run
\*   cutoff      the cutoffTimestamp of the cleanup run
\*   deleted     the RowsAffected of the run's statements, summed
\*   failed      a statement of the run returned an error
NewStorage ==
    [buffer |-> <<>>, rows |-> <<>>, closeChan |-> FALSE,
     writerDone |-> FALSE, dbClosed |-> FALSE,
     cleaner |-> "waiting", cutoff |-> 0, deleted |-> 0, failed |-> FALSE]

\* How one batchWrite can go: every step works, Begin or Prepare or Commit
\* fails, or the insert of entry number idx fails
BatchOutcomes(entries) ==
    {[kind |-> k, idx |-> 0] : k \in {"ok", "begin", "prepare", "commit"}}
        \cup {[kind |-> "insert", idx |-> i] : i \in 1..Len(entries)}

OutcomeKinds == {"ok", "begin", "prepare", "commit", "insert"}

\* the outcomes of the kinds in kinds
Outcomes(kinds, entries) ==
    {o \in BatchOutcomes(entries) : o.kind \in kinds}

Without(entries, idx) ==
    SubSeq(entries, 1, idx - 1) \o SubSeq(entries, idx + 1, Len(entries))

\* batchWrite as it would be with "range entries[:len(entries)-1]"
batchWriteLosesLast(st, entries, outcome) ==
    IF st.dbClosed THEN st.rows
    ELSE st.rows \o SubSeq(entries, 1, Len(entries) - 1)

\* batchWrite: the rows afterwards.  A failed Begin, Prepare or Commit
\* leaves the table as it was (the deferred Rollback); a failed insert is
\* skipped ("continue") and the others are committed.  On a closed
\* database Begin fails.
batchWrite(st, entries, outcome) ==
    IF st.dbClosed THEN st.rows
    ELSE CASE outcome.kind = "ok" -> st.rows \o entries
           [] outcome.kind = "insert" -> st.rows \o Without(entries, outcome.idx)
           [] OTHER -> st.rows

\* the writer as it would be with "len(buffer) > 50"
ReceivesFlushesLate(kinds) ==
    /\ ~store.writerDone /\ ~Exited
    /\ Len(writeChan) > 0
    /\ writeChan' = Tail(writeChan)
    /\ LET buffer == Append(store.buffer, Head(writeChan))
       IN IF Len(buffer) > BatchSize
          THEN \E outcome \in Outcomes(kinds, buffer) :
                  store' = [store EXCEPT !.buffer = <<>>,
                               !.rows = batchWrite(store, buffer, outcome)]
          ELSE store' = [store EXCEPT !.buffer = buffer]
    /\ UNCHANGED <<tui, calls, reply, main, view>>

\* writer, "case entry := <-s.writeChan", the database answering with an
\* outcome of one of kinds
Receives(kinds) ==
    /\ ~store.writerDone /\ ~Exited
    /\ Len(writeChan) > 0
    /\ writeChan' = Tail(writeChan)
    /\ LET buffer == Append(store.buffer, Head(writeChan))
       IN IF Len(buffer) >= BatchSize
          THEN \E outcome \in Outcomes(kinds, buffer) :
                  store' = [store EXCEPT !.buffer = <<>>,
                               !.rows = batchWrite(store, buffer, outcome)]
          ELSE store' = [store EXCEPT !.buffer = buffer]
    /\ UNCHANGED <<tui, calls, reply, main, view>>

\* writer, "case <-ticker.C"
Ticks(kinds) ==
    /\ ~store.writerDone /\ ~Exited
    /\ Len(store.buffer) > 0
    /\ \E outcome \in Outcomes(kinds, store.buffer) :
          store' = [store EXCEPT !.buffer = <<>>,
                       !.rows = batchWrite(store, store.buffer, outcome)]
    /\ UNCHANGED <<tui, writeChan, calls, reply, main, view>>

\* writer, "case <-s.closeChan"
Closes(kinds) ==
    /\ ~store.writerDone /\ ~Exited
    /\ store.closeChan
    /\ IF Len(store.buffer) > 0
       THEN \E outcome \in Outcomes(kinds, store.buffer) :
               store' = [store EXCEPT !.writerDone = TRUE,
                            !.rows = batchWrite(store, store.buffer, outcome)]
       ELSE store' = [store EXCEPT !.writerDone = TRUE]
    /\ UNCHANGED <<tui, writeChan, calls, reply, main, view>>

\* the writer against a database that may fail in every way
WriterReceives == Receives(OutcomeKinds)
WriterTicks == Ticks(OutcomeKinds)
WriterCloses == Closes(OutcomeKinds)

\* the writer against a database that works
FlushReceives == Receives({"ok"})
FlushTicks == Ticks({"ok"})
FlushCloses == Closes({"ok"})

\* Close, "close(s.closeChan)"
CloseSignals ==
    /\ ~store.closeChan
    /\ store' = [store EXCEPT !.closeChan = TRUE]
    /\ UNCHANGED <<tui, writeChan, calls, reply, main, view>>

\* Close, after the 100 ms sleep: "return s.db.Close()"
CloseReturns ==
    /\ store.closeChan
    /\ ~store.dbClosed
    /\ store' = [store EXCEPT !.dbClosed = TRUE]
    /\ UNCHANGED <<tui, writeChan, calls, reply, main, view>>

\* main after "defer store.Close()", inside p.Run(): pc is "run" while the
\* control loop runs, "defer" while main's deferred calls run, "exit" once
\* the process has ended; client is the docker.Client of "defer client.Close()"
NewMain == [pc |-> "run", client |-> "open"]

\* nothing drawn yet.  A drawn graph: its two series, whether Storage.Query
\* returned an error, and where the series are from
NoView == [cpu |-> <<>>, mem |-> <<>>, err |-> FALSE, from |-> ""]

\* nobody has called Storage.Query
NoReply == [id |-> "", range |-> "", now |-> 0, points |-> <<>>]

\* the storage.StatsEntry of the caller's call number n
CallEntry(n) ==
    [ContainerID |-> "a", CPUPercent |-> n, MemoryPercent |-> 10 + n, src |-> Nil]

\* a caller of the store calls Write; it does not write after Close
StoreWrite ==
    /\ calls < MaxWrites
    /\ ~store.closeChan
    /\ calls' = calls + 1
    /\ writeChan' = Write(writeChan, CallEntry(calls + 1))
    /\ UNCHANGED <<tui, store, reply, main, view>>

---------------------------------------------------------------------------
(* internal/storage: Storage.Query *)

TimeRanges ==
    {"Range30Min", "Range1Hour", "Range6Hour", "Range1Day", "Range1Week"}

\* TimeRange.Duration, in seconds
Duration(timeRange) ==
    CASE timeRange = "Range30Min" -> 30 * 60
      [] timeRange = "Range1Hour" -> 3600
      [] timeRange = "Range6Hour" -> 6 * 3600
      [] timeRange = "Range1Day" -> 24 * 3600
      [] timeRange = "Range1Week" -> 7 * 24 * 3600
      [] OTHER -> 30 * 60

\* Query's "bucketSize = ..." ; Range30Min leaves it 0 and does not use it
bucketSize(timeRange) ==
    CASE timeRange = "Range1Hour" -> 30
      [] timeRange = "Range6Hour" -> 300
      [] timeRange = "Range1Day" -> 600
      [] timeRange = "Range1Week" -> 3600
      [] OTHER -> 0

\* a row of container_stats, reduced to the columns Query and the cleanup
\* read: container_id, timestamp (Unix seconds), cpu_percent, memory_percent
Row(id, ts, cpu, mem) ==
    [ContainerID |-> id, Timestamp |-> ts, CPUPercent |-> cpu,
     MemoryPercent |-> mem]

\* a REAL column value or an AVG over n of them: the exact quotient sum / n
Real(sum, n) == [sum |-> sum, n |-> n]

DataPoint(ts, cpu, mem) ==
    [Timestamp |-> ts, CPUPercent |-> cpu, MemoryPercent |-> mem]

\* the sum of the column values vals over the rows idxs
RECURSIVE SumOver(_, _)
SumOver(vals, idxs) ==
    IF idxs = {} THEN 0
    ELSE LET i == CHOOSE x \in idxs : TRUE
         IN vals[i] + SumOver(vals, idxs \ {i})

CPUColumn(rows) == [i \in DOMAIN rows |-> rows[i].CPUPercent]
MemoryColumn(rows) == [i \in DOMAIN rows |-> rows[i].MemoryPercent]

\* the filter as it would be with "timestamp >= ?"
WhereFromCutoff(rows, containerID, cutoff) ==
    {i \in DOMAIN rows : /\ rows[i].ContainerID = containerID
                         /\ rows[i].Timestamp >= cutoff}

\* "WHERE container_id = ? AND timestamp > ?": the rows' indices
Where(rows, containerID, cutoff) ==
    {i \in DOMAIN rows : /\ rows[i].ContainerID = containerID
                         /\ rows[i].Timestamp > cutoff}

\* "ORDER BY timestamp ASC" over the rows idxs, each row a DataPoint; rows
\* of one timestamp come in insertion (rowid) order
RECURSIVE OrderByTimestamp(_, _)
OrderByTimestamp(rows, idxs) ==
    IF idxs = {} THEN <<>>
    ELSE LET i == CHOOSE x \in idxs : \A y \in idxs :
                     \/ rows[x].Timestamp < rows[y].Timestamp
                     \/ rows[x].Timestamp = rows[y].Timestamp /\ x <= y
         IN <<DataPoint(rows[i].Timestamp, Real(rows[i].CPUPercent, 1),
                        Real(rows[i].MemoryPercent, 1))>>
                \o OrderByTimestamp(rows, idxs \ {i})

\* "(timestamp / ?) * ? as bucket": integer division
Bucket(ts, width) == (ts \div width) * width

\* "GROUP BY bucket ORDER BY bucket ASC" with AVG(cpu_percent) and
\* AVG(memory_percent), over the rows idxs and the buckets left to emit
RECURSIVE GroupByBucket(_, _, _, _)
GroupByBucket(rows, idxs, width, buckets) ==
    IF buckets = {} THEN <<>>
    ELSE LET b == CHOOSE x \in buckets : \A y \in buckets : x <= y
             group == {i \in idxs : Bucket(rows[i].Timestamp, width) = b}
             n == Cardinality(group)
         IN <<DataPoint(b, Real(SumOver(CPUColumn(rows), group), n),
                        Real(SumOver(MemoryColumn(rows), group), n))>>
                \o GroupByBucket(rows, idxs, width, buckets \ {b})

\* Storage.Query at time now against the rows rows: the points returned
Query(rows, containerID, timeRange, now) ==
    LET cutoff == now - Duration(timeRange)
        idxs == Where(rows, containerID, cutoff)
        width == bucketSize(timeRange)
    IN IF timeRange = "Range30Min" THEN OrderByTimestamp(rows, idxs)
       ELSE GroupByBucket(rows, idxs, width,
                {Bucket(rows[i].Timestamp, width) : i \in idxs})

---------------------------------------------------------------------------
(* Helpers of Update *)

\* int(float64(m.height) * 0.4) - 8, at least 1
calculateVisibleLogLines(mm) ==
    LET bottomHeight == (mm.height * 4) \div 10
        visibleLines == bottomHeight - 8
    IN IF visibleLines < 1 THEN 1 ELSE visibleLines

\* the maximum as it would be with "maxScroll := len(m.logs) - 1", whatever
\* the panel shows
calculateMaxScrollOfOneLine(mm) ==
    LET maxScroll == Len(mm.logs) - 1
    IN IF maxScroll < 0 THEN 0 ELSE maxScroll

calculateMaxScroll(mm) ==
    LET maxScroll == Len(mm.logs) - calculateVisibleLogLines(mm)
    IN IF maxScroll < 0 THEN 0 ELSE maxScroll

\* the comparison as it would be without "|| old[i].State != new[i].State"
containersListChangedByID(old, new) ==
    IF Len(old) # Len(new) THEN TRUE
    ELSE \E i \in 1..Len(old) : old[i].ID # new[i].ID

\* containersListChanged: another length, or another ID or State somewhere
containersListChanged(old, new) ==
    IF Len(old) # Len(new) THEN TRUE
    ELSE \E i \in 1..Len(old) :
            old[i].ID # new[i].ID \/ old[i].State # new[i].State

\* What a handler hands back: the Model, the client's streams as its calls
\* left them, and the commands of the returned tea.Cmd
Result(mm, ss, ls, cmds) == [m |-> mm, ss |-> ss, ls |-> ls, cmds |-> cmds]

\* the stats half as it would be if stopping the stream also emptied the
\* graphs
updateStatsClearsHistory(mm, ss, container, containerChanged) ==
    IF container.State = "running"
    THEN IF containerChanged \/ mm.statsCancel = Nil
         THEN LET ss1 == OpenStream(CancelStream(ss, mm.statsCancel), container.ID)
                  h == Len(ss1)
              IN Result([mm EXCEPT !.statsCancel = h, !.statsChan = h],
                        ss1, <<>>, <<WaitStats(h)>>)
         ELSE Result(mm, ss, <<>>, <<>>)
    ELSE Result([mm EXCEPT !.statsCancel = Nil, !.currentStats = NilStats,
                           !.cpuHistory = Zeros, !.memoryHistory = Zeros],
                CancelStream(ss, mm.statsCancel), <<>>, <<>>)

\* the "--- Stats streaming ---" half of updateStatsAndLogsForCursor
updateStats(mm, ss, container, containerChanged) ==
    IF container.State = "running"
    THEN IF containerChanged \/ mm.statsCancel = Nil
         THEN LET ss1 == OpenStream(CancelStream(ss, mm.statsCancel), container.ID)
                  h == Len(ss1)
              IN Result([mm EXCEPT !.statsCancel = h, !.statsChan = h],
                        ss1, <<>>, <<WaitStats(h)>>)
         ELSE Result(mm, ss, <<>>, <<>>)
    ELSE Result([mm EXCEPT !.statsCancel = Nil, !.currentStats = NilStats],
                CancelStream(ss, mm.statsCancel), <<>>, <<>>)

\* the logs half as it would be without "m.cpuHistory = make(...)" and
\* "m.memoryHistory = make(...)": the graphs keep the old container's points
updateLogsKeepsHistory(mm, ls, container, containerChanged) ==
    IF ~containerChanged THEN Result(mm, <<>>, ls, <<>>)
    ELSE LET ls1 == CancelStream(ls, mm.logsCancel)
             m1 == [mm EXCEPT !.logsCancel = Nil,
                              !.logsChan = IF mm.logsCancel # Nil THEN Nil ELSE @,
                              !.logs = <<>>, !.logsScroll = 0,
                              !.logsAutoScroll = TRUE,
                              !.currentProcesses = Nil,
                              !.currentContainerID = container.ID]
         IN IF container.State = "running"
            THEN LET ls2 == OpenStream(ls1, container.ID)
                     h == Len(ls2)
                 IN Result([m1 EXCEPT !.logsCancel = h, !.logsChan = h],
                           <<>>, ls2, <<WaitLogs(h)>>)
            ELSE Result(m1, <<>>, ls1, <<>>)

\* the "--- Logs streaming ---" half of updateStatsAndLogsForCursor
updateLogs(mm, ls, container, containerChanged) ==
    IF ~containerChanged THEN Result(mm, <<>>, ls, <<>>)
    ELSE LET ls1 == CancelStream(ls, mm.logsCancel)
             m1 == [mm EXCEPT !.logsCancel = Nil,
                              !.logsChan = IF mm.logsCancel # Nil THEN Nil ELSE @,
                              !.logs = <<>>, !.logsScroll = 0,
                              !.logsAutoScroll = TRUE,
                              !.cpuHistory = Zeros, !.memoryHistory = Zeros,
                              !.currentProcesses = Nil,
                              !.currentContainerID = container.ID]
         IN IF container.State = "running"
            THEN LET ls2 == OpenStream(ls1, container.ID)
                     h == Len(ls2)
                 IN Result([m1 EXCEPT !.logsCancel = h, !.logsChan = h],
                           <<>>, ls2, <<WaitLogs(h)>>)
            ELSE Result(m1, <<>>, ls1, <<>>)

updateStatsAndLogsForCursor(mm, ss, ls) ==
    IF Len(mm.containers) = 0 THEN Result(mm, ss, ls, <<>>)
    ELSE LET container == mm.containers[mm.cursor + 1]
             containerChanged == mm.currentContainerID # container.ID
             s == updateStats(mm, ss, container, containerChanged)
             l == updateLogs(s.m, ls, container, containerChanged)
         IN Result(l.m, s.ss, l.ls, s.cmds \o l.cmds)

---------------------------------------------------------------------------
(* NewModel and Init *)

NewModel ==
    [containers |-> <<>>, cursor |-> 0, err |-> FALSE, loading |-> TRUE,
     message |-> "", currentStats |-> NilStats, currentProcesses |-> Nil,
     statsCancel |-> Nil, statsChan |-> Nil,
     logs |-> <<>>, logsCancel |-> Nil, logsChan |-> Nil,
     logsScroll |-> 0, logsAutoScroll |-> FALSE,
     currentContainerID |-> "", width |-> 0, height |-> 0,
     cpuHistory |-> Zeros, memoryHistory |-> Zeros,
     timeRange |-> "Range30Min"]

Init ==
    /\ m = NewModel
    /\ statsStreams = <<>>
    /\ logStreams = <<>>
    \* Model.Init: tea.Batch(fetchContainers(m.client), tickCmd())
    /\ tasks = Add(Add(EmptyBag, Fetch), Tick)
    /\ quit = FALSE
    /\ writeChan = <<>>
    /\ store = NewStorage
    /\ calls = 0
    /\ reply = NoReply
    /\ main = NewMain
    /\ view = NoView

---------------------------------------------------------------------------
(* Update: one action per message kind.  Each consumes the task that holds *)
(* the message and starts the tasks of the command it returns.             *)

\* the step of the control loop: new Model, the streams as the handler's
\* calls left them, the consumed message gone, the returned commands started
Handled(r, consumed) ==
    /\ Len(r.ss) <= MaxStreams
    /\ Len(r.ls) <= MaxStreams
    /\ m' = r.m
    /\ statsStreams' = r.ss
    /\ logStreams' = r.ls
    /\ tasks' = AddAll(tasks (-) consumed, r.cmds)

\* case tea.WindowSizeMsg
Heights == {0, 25}
WindowSizeMsg ==
    /\ ~quit /\ ~Exited
    /\ \E h \in Heights :
          Handled(Result([m EXCEPT !.width = h, !.height = h],
                         statsStreams, logStreams, <<>>), EmptyBag)
    /\ UNCHANGED <<quit, writeChan, store, calls, reply, main, view>>

\* case "ctrl+c", "q"
KeyQuit ==
    /\ ~quit /\ ~Exited
    /\ statsStreams' = CancelStream(statsStreams, m.statsCancel)
    /\ logStreams' = CancelStream(logStreams, m.logsCancel)
    /\ quit' = TRUE
    /\ UNCHANGED <<m, tasks, writeChan, store, calls, reply, main, view>>

\* case "up", "k"
KeyUp ==
    /\ ~quit /\ ~Exited
    /\ m.cursor > 0
    /\ Handled(updateStatsAndLogsForCursor([m EXCEPT !.cursor = @ - 1],
                                           statsStreams, logStreams), EmptyBag)
    /\ UNCHANGED <<quit, writeChan, store, calls, reply, main, view>>

\* case "down", "j"
KeyDown ==
    /\ ~quit /\ ~Exited
    /\ m.cursor < Len(m.containers) - 1
    /\ Handled(updateStatsAndLogsForCursor([m EXCEPT !.cursor = @ + 1],
                                           statsStreams, logStreams), EmptyBag)
    /\ UNCHANGED <<quit, writeChan, store, calls, reply, main, view>>

\* the keys of the log panel
LogKeys == {"pgup", "pgdown", "home", "end", "a", "c"}

\* "scrollAmount := visibleLines / 2", at least 1
scrollAmount(mm) ==
    LET half == calculateVisibleLogLines(mm) \div 2
    IN IF half < 1 THEN 1 ELSE half

\* case "pgup", "pgdown", "home", "end", "a", "c": the Model afterwards
logsKey(mm, key) ==
    CASE key = "pgup" ->
            IF mm.logsScroll > 0
            THEN LET scroll == mm.logsScroll - scrollAmount(mm)
                 IN [mm EXCEPT !.logsScroll = IF scroll < 0 THEN 0 ELSE scroll,
                               !.logsAutoScroll = FALSE]
            ELSE mm
      [] key = "pgdown" ->
            LET maxScroll == calculateMaxScroll(mm)
                scroll == mm.logsScroll + scrollAmount(mm)
            IN IF scroll >= maxScroll
               THEN [mm EXCEPT !.logsScroll = maxScroll,
                               !.logsAutoScroll = TRUE]
               ELSE [mm EXCEPT !.logsScroll = scroll]
      [] key = "home" ->
            [mm EXCEPT !.logsScroll = 0, !.logsAutoScroll = FALSE]
      [] key = "end" ->
            [mm EXCEPT !.logsScroll = calculateMaxScroll(mm),
                       !.logsAutoScroll = TRUE]
      [] key = "a" ->
            IF mm.logsAutoScroll
            THEN [mm EXCEPT !.logsAutoScroll = FALSE]
            ELSE [mm EXCEPT !.logsAutoScroll = TRUE,
                            !.logsScroll = calculateMaxScroll(mm)]
      [] key = "c" ->
            [mm EXCEPT !.logs = <<>>, !.logsScroll = 0]

KeyLogs ==
    /\ ~quit /\ ~Exited
    /\ \E key \in LogKeys :
          Handled(Result(logsKey(m, key), statsStreams, logStreams, <<>>),
                  EmptyBag)
    /\ UNCHANGED <<quit, writeChan, store, calls, reply, main, view>>

\* the handler as it would be if a new range also emptied the graphs
timeRangeKeyClearsHistory(mm, timeRange) ==
    [mm EXCEPT !.timeRange = timeRange,
               !.cpuHistory = Zeros, !.memoryHistory = Zeros]

\* case "1" ... "5": "m.timeRange = storage.Range..."
timeRangeKey(mm, timeRange) == [mm EXCEPT !.timeRange = timeRange]

KeyTimeRange ==
    /\ ~quit /\ ~Exited
    /\ \E timeRange \in TimeRanges :
          Handled(Result(timeRangeKey(m, timeRange), statsStreams, logStreams,
                         <<>>), EmptyBag)
    /\ UNCHANGED <<quit, writeChan, store, calls, reply, main, view>>

\* case "s", "x", "r"
KeyAction ==
    /\ ~quit /\ ~Exited
    /\ Len(m.containers) > 0
    /\ Pending < MaxPending
    /\ \E verb \in Verbs :
          Handled(Result(m, statsStreams, logStreams,
                         <<Action(verb, m.containers[m.cursor + 1].ID)>>),
                  EmptyBag)
    /\ UNCHANGED <<quit, writeChan, store, calls, reply, main, view>>

\* case "R"
KeyRefresh ==
    /\ ~quit /\ ~Exited
    /\ Pending < MaxPending + MaxManual
    /\ Handled(Result([m EXCEPT !.loading = TRUE, !.message = "Refreshing..."],
                      statsStreams, logStreams, <<fetchContainers(tasks)>>),
               EmptyBag)
    /\ UNCHANGED <<quit, writeChan, store, calls, reply, main, view>>

\* the handler as it would be with "return m, fetchContainers(m.client)":
\* the list is fetched once more and no further tick is scheduled
TickMsgStopsTicking ==
    /\ ~quit /\ ~Exited
    /\ BagIn(Tick, tasks)
    /\ Pending < MaxPending
    /\ Handled(Result(m, statsStreams, logStreams,
                      <<fetchContainers(tasks)>>), SetToBag({Tick}))
    /\ UNCHANGED <<quit, writeChan, store, calls, reply, main, view>>

\* case tickMsg
TickMsg ==
    /\ ~quit /\ ~Exited
    /\ BagIn(Tick, tasks)
    /\ Pending < MaxPending
    /\ Handled(Result(m, statsStreams, logStreams,
                      <<fetchContainers(tasks), Tick>>), SetToBag({Tick}))
    /\ UNCHANGED <<quit, writeChan, store, calls, reply, main, view>>

\* the handler as it would be if a failed request emptied the list
containersErrDropsList(mm) ==
    [mm EXCEPT !.loading = FALSE, !.err = TRUE, !.containers = <<>>]

\* case containersMsg, msg.err != nil
containersErr(mm) == [mm EXCEPT !.loading = FALSE, !.err = TRUE]

\* the handler as it would be with "if m.cursor >= len(m.containers)" alone:
\* an empty list pulls the cursor to -1
containersOkClampsEmpty(mm, ss, ls, list) ==
    LET containersChanged == containersListChanged(mm.containers, list)
        m1 == [mm EXCEPT !.loading = FALSE, !.containers = list,
                         !.cursor = IF @ >= Len(list)
                                    THEN Len(list) - 1 ELSE @]
    IN IF containersChanged THEN updateStatsAndLogsForCursor(m1, ss, ls)
       ELSE Result(m1, ss, ls, <<>>)

\* case containersMsg, msg.err == nil
containersOk(mm, ss, ls, list) ==
    LET containersChanged == containersListChanged(mm.containers, list)
        m1 == [mm EXCEPT !.loading = FALSE, !.containers = list,
                         !.cursor = IF @ >= Len(list) /\ Len(list) > 0
                                    THEN Len(list) - 1 ELSE @]
    IN IF containersChanged THEN updateStatsAndLogsForCursor(m1, ss, ls)
       ELSE Result(m1, ss, ls, <<>>)

\* client.ListContainers failed
ContainersErrMsg ==
    /\ ~quit /\ ~Exited
    /\ \E fetch \in FetchTasks :
          /\ BagIn(fetch, tasks)
          /\ Handled(Result(containersErr(m), statsStreams, logStreams, <<>>),
                     SetToBag({fetch}))
    /\ UNCHANGED <<quit, writeChan, store, calls, reply, main, view>>

\* client.ListContainers answered with one of lists
ContainersMsg(lists) ==
    /\ ~quit /\ ~Exited
    /\ \E fetch \in FetchTasks, list \in lists :
          /\ BagIn(fetch, tasks)
          /\ Handled(containersOk(m, statsStreams, logStreams, list),
                     SetToBag({fetch}))
    /\ UNCHANGED <<quit, writeChan, store, calls, reply, main, view>>

\* the handler as it would be if it scheduled the refresh twice
ActionMsgRefreshesTwice ==
    /\ ~quit /\ ~Exited
    /\ \E verb \in Verbs, id \in ContainerIDs :
          /\ BagIn(Action(verb, id), tasks)
          /\ \E message \in {"Error", verb} :
                Handled(Result([m EXCEPT !.message = message],
                               statsStreams, logStreams,
                               <<fetchContainers(tasks), LaterFetch>>),
                        SetToBag({Action(verb, id)}))
    /\ UNCHANGED <<quit, writeChan, store, calls, reply, main, view>>

\* case actionMsg
ActionMsg ==
    /\ ~quit /\ ~Exited
    /\ \E verb \in Verbs, id \in ContainerIDs :
          /\ BagIn(Action(verb, id), tasks)
          /\ \E message \in {"Error", verb} :
                Handled(Result([m EXCEPT !.message = message],
                               statsStreams, logStreams,
                               <<fetchContainers(tasks)>>),
                        SetToBag({Action(verb, id)}))
    /\ UNCHANGED <<quit, writeChan, store, calls, reply, main, view>>

\* the entry as it would be with "ContainerID: m.containers[0].ID"
StatsEntryOfFirst(mm, stats) ==
    [ContainerID |-> mm.containers[1].ID,
     CPUPercent |-> CPUPercent(stats), MemoryPercent |-> MemoryPercent(stats),
     src |-> stats.src]

\* the storage.StatsEntry Update builds from a sample
StatsEntry(mm, stats) ==
    [ContainerID |-> mm.containers[mm.cursor + 1].ID,
     CPUPercent |-> CPUPercent(stats), MemoryPercent |-> MemoryPercent(stats),
     src |-> stats.src]

\* the handler as it would be with "append(m.cpuHistory, ...)": the CPU
\* history grows instead of shifting
statsModelGrows(mm, msg) ==
    IF msg.val = ErrVal THEN [mm EXCEPT !.message = "Stats error"]
    ELSE IF msg.val = ZeroVal
         THEN [mm EXCEPT !.currentStats = NilStats, !.message = ""]
    ELSE LET stats == Stats(msg.stream, msg.val, msg.procs)
         IN [mm EXCEPT !.currentStats = stats, !.message = "",
                       !.cpuHistory = @ \o <<CPUPercent(stats)>>,
                       !.memoryHistory = Tail(@) \o <<MemoryPercent(stats)>>,
                       !.currentProcesses =
                            IF msg.procs # 0 THEN msg.stream ELSE @]

\* case statsMsg: the Model afterwards
statsModel(mm, msg) ==
    IF msg.val = ErrVal THEN [mm EXCEPT !.message = "Stats error"]
    ELSE IF msg.val = ZeroVal
         THEN [mm EXCEPT !.currentStats = NilStats, !.message = ""]
    ELSE LET stats == Stats(msg.stream, msg.val, msg.procs)
         IN [mm EXCEPT !.currentStats = stats, !.message = "",
                       !.cpuHistory = Tail(@) \o <<CPUPercent(stats)>>,
                       !.memoryHistory = Tail(@) \o <<MemoryPercent(stats)>>,
                       !.currentProcesses =
                            IF msg.procs # 0 THEN msg.stream ELSE @]

\* case statsMsg: the queue afterwards
statsWrite(mm, q, msg) ==
    IF msg.val > 0 /\ Len(mm.containers) > 0
    THEN Write(q, StatsEntry(mm, Stats(msg.stream, msg.val, msg.procs)))
    ELSE q

\* case statsMsg: "return m, waitForStats(m.statsChan, m.statsErrChan)"
statsRearm(mm) == <<WaitStats(mm.statsChan)>>

StatsMsg ==
    /\ ~quit /\ ~Exited
    /\ \E msg \in BagToSet(tasks) :
          /\ msg.type = "statsMsg"
          /\ Handled(Result(statsModel(m, msg), statsStreams, logStreams,
                            statsRearm(m)), SetToBag({msg}))
          /\ writeChan' = statsWrite(m, writeChan, msg)
    /\ UNCHANGED <<quit, store, calls, reply, main, view>>

\* the handler as it would be with "m.logs = m.logs[:maxLogs]": a full
\* buffer keeps its oldest entries
logsModelKeepsOldest(mm, msg) ==
    IF msg.val = ErrVal THEN [mm EXCEPT !.message = "Logs error"]
    ELSE IF msg.val = ZeroVal THEN mm
    ELSE LET appended == Append(mm.logs, LogEntry(msg.stream, msg.val))
             m1 == [mm EXCEPT !.logs =
                        IF Len(appended) > MaxLogs
                        THEN SubSeq(appended, 1, MaxLogs)
                        ELSE appended]
         IN IF m1.logsAutoScroll
            THEN [m1 EXCEPT !.logsScroll = calculateMaxScroll(m1)]
            ELSE m1

\* case logsMsg: the Model afterwards
logsModel(mm, msg) ==
    IF msg.val = ErrVal THEN [mm EXCEPT !.message = "Logs error"]
    ELSE IF msg.val = ZeroVal THEN mm
    ELSE LET appended == Append(mm.logs, LogEntry(msg.stream, msg.val))
             m1 == [mm EXCEPT !.logs =
                        IF Len(appended) > MaxLogs
                        THEN SubSeq(appended, Len(appended) - MaxLogs + 1,
                                    Len(appended))
                        ELSE appended]
         IN IF m1.logsAutoScroll
            THEN [m1 EXCEPT !.logsScroll = calculateMaxScroll(m1)]
            ELSE m1

\* case logsMsg: "return m, m.waitForLogs()"
logsRearm(mm) == <<WaitLogs(mm.logsChan)>>

LogsMsg ==
    /\ ~quit /\ ~Exited
    /\ \E msg \in BagToSet(tasks) :
          /\ msg.type = "logsMsg"
          /\ Handled(Result(logsModel(m, msg), statsStreams, logStreams,
                            logsRearm(m)), SetToBag({msg}))
    /\ UNCHANGED <<quit, writeChan, store, calls, reply, main, view>>

---------------------------------------------------------------------------
(* View: what the panels draw from the Model *)

\* renderListPanelContent: the error, "Loading...", or the list
renderListPanelContent(mm) ==
    IF mm.err THEN "error"
    ELSE IF mm.loading /\ Len(mm.containers) = 0 THEN "loading"
    ELSE "list"

\* what Storage.Query hands renderGraphPanel: the points, or an error
QueryResult(points, err) == [points |-> points, err |-> err]

\* the panel as it would be if a failed query left the graph empty
renderGraphPanelBlankOnError(mm, result) ==
    IF mm.currentContainerID # "" /\ ~result.err /\ Len(result.points) > 0
    THEN [cpu |-> [i \in DOMAIN result.points |-> result.points[i].CPUPercent],
          mem |-> [i \in DOMAIN result.points |->
                      result.points[i].MemoryPercent],
          err |-> FALSE, from |-> "store"]
    ELSE IF mm.currentContainerID # "" /\ result.err
    THEN [cpu |-> <<>>, mem |-> <<>>, err |-> TRUE, from |-> "memory"]
    ELSE [cpu |-> mm.cpuHistory, mem |-> mm.memoryHistory,
          err |-> FALSE, from |-> "memory"]

\* renderGraphPanel: the series handed to renderDualGraphWithRange; result
\* is what the call of Storage.Query returns when there is one
renderGraphPanel(mm, result) ==
    IF mm.currentContainerID # "" /\ ~result.err /\ Len(result.points) > 0
    THEN [cpu |-> [i \in DOMAIN result.points |-> result.points[i].CPUPercent],
          mem |-> [i \in DOMAIN result.points |->
                      result.points[i].MemoryPercent],
          err |-> FALSE, from |-> "store"]
    ELSE [cpu |-> mm.cpuHistory, mem |-> mm.memoryHistory,
          err |-> mm.currentContainerID # "" /\ result.err,
          from |-> "memory"]

---------------------------------------------------------------------------
(* The producer goroutines of the streams and the waiters' selects. *)

\* what c.getContainerProcessesWithContext can give the stats producer
FetchOutcomes == {"fail", "empty", "some"}

\* the bookkeeping as it would be with "updateCounter%5 == 0"
lastProcessesEveryFifth(stream, k, outcome) ==
    IF k = 1 \/ k % 5 = 0
    THEN CASE outcome = "fail" -> stream.procs
           [] outcome = "empty" -> 0
           [] outcome = "some" -> k
    ELSE stream.procs

\* the producer's bookkeeping for item number k: does it fetch, what does
\* lastProcesses hold afterwards
lastProcesses(stream, k, outcome) ==
    IF k = 1 \/ k % ProcEvery = 0
    THEN CASE outcome = "fail" -> stream.procs
           [] outcome = "empty" -> 0
           [] outcome = "some" -> k
    ELSE stream.procs

\* "case statsChan <- parsedStats" meets "case stats := <-statsChan"
StatsSend(limit) ==
    /\ ~quit /\ ~Exited
    /\ \E h \in DOMAIN statsStreams, outcome \in FetchOutcomes :
          LET stream == statsStreams[h]
              k == stream.emitted + 1
              procs == lastProcesses(stream, k, outcome)
          IN /\ ~stream.closed
             /\ TotalEmitted(statsStreams) < limit
             /\ BagIn(WaitStats(h), tasks)
             /\ statsStreams' = [statsStreams EXCEPT ![h].emitted = k,
                                                     ![h].procs = procs]
             /\ tasks' = Add(Remove(tasks, WaitStats(h)),
                             Task("statsMsg", h, k, procs))
    /\ UNCHANGED <<m, logStreams, quit, writeChan, store, calls, reply, main, view>>

\* "case logsChan <- entry" meets "case entry, ok := <-logsChan"
LogsSend(limit) ==
    /\ ~quit /\ ~Exited
    /\ \E h \in DOMAIN logStreams :
          LET stream == logStreams[h]
              k == stream.emitted + 1
          IN /\ ~stream.closed
             /\ TotalEmitted(logStreams) < limit
             /\ BagIn(WaitLogs(h), tasks)
             /\ logStreams' = [logStreams EXCEPT ![h].emitted = k]
             /\ tasks' = Add(Remove(tasks, WaitLogs(h)),
                             Task("logsMsg", h, k, 0))
    /\ UNCHANGED <<m, statsStreams, quit, writeChan, store, calls, reply, main, view>>

\* the producer returns after "errChan <- err": the request or the read
\* failed, by itself or because the context was cancelled
producerFails(stream) ==
    [stream EXCEPT !.err = TRUE, !.closed = TRUE, !.self = ~stream.cancelled]

\* the producer returns without an error: end of stream, or a cancellation
\* it recognises
producerEnds(stream) ==
    [stream EXCEPT !.closed = TRUE, !.self = ~stream.cancelled]

StatsProducerReturns ==
    /\ ~quit /\ ~Exited
    /\ \E h \in DOMAIN statsStreams :
          /\ MayReturn(statsStreams, h)
          /\ \/ statsStreams' = [statsStreams EXCEPT ![h] = producerFails(@)]
             \/ statsStreams' = [statsStreams EXCEPT ![h] = producerEnds(@)]
    /\ UNCHANGED <<m, logStreams, tasks, quit, writeChan, store, calls, reply, main, view>>

LogsProducerReturns ==
    /\ ~quit /\ ~Exited
    /\ \E h \in DOMAIN logStreams :
          /\ MayReturn(logStreams, h)
          /\ \/ logStreams' = [logStreams EXCEPT ![h] = producerFails(@)]
             \/ logStreams' = [logStreams EXCEPT ![h] = producerEnds(@)]
    /\ UNCHANGED <<m, statsStreams, tasks, quit, writeChan, store, calls, reply, main, view>>

\* waitForStats, "case err := <-errChan" with an error buffered
StatsWaiterGetsErr ==
    /\ ~quit /\ ~Exited
    /\ \E h \in DOMAIN statsStreams :
          /\ statsStreams[h].err
          /\ BagIn(WaitStats(h), tasks)
          /\ statsStreams' = [statsStreams EXCEPT ![h].err = FALSE]
          /\ tasks' = Add(Remove(tasks, WaitStats(h)),
                          Task("statsMsg", h, ErrVal, 0))
    /\ UNCHANGED <<m, logStreams, quit, writeChan, store, calls, reply, main, view>>

\* waitForStats on closed channels: "stats := <-statsChan" yields nil, and
\* so does "err := <-errChan" once the buffer is empty
StatsWaiterGetsZero ==
    /\ ~quit /\ ~Exited
    /\ \E h \in DOMAIN statsStreams :
          /\ statsStreams[h].closed
          /\ BagIn(WaitStats(h), tasks)
          /\ tasks' = Add(Remove(tasks, WaitStats(h)),
                          Task("statsMsg", h, ZeroVal, 0))
    /\ UNCHANGED <<m, statsStreams, logStreams, quit, writeChan, store, calls, reply, main, view>>

\* waitForLogs, "case err := <-errChan" with an error buffered
LogsWaiterGetsErr ==
    /\ ~quit /\ ~Exited
    /\ \E h \in DOMAIN logStreams :
          /\ logStreams[h].err
          /\ BagIn(WaitLogs(h), tasks)
          /\ logStreams' = [logStreams EXCEPT ![h].err = FALSE]
          /\ tasks' = Add(Remove(tasks, WaitLogs(h)),
                          Task("logsMsg", h, ErrVal, 0))
    /\ UNCHANGED <<m, statsStreams, quit, writeChan, store, calls, reply, main, view>>

\* waitForLogs, "case err := <-errChan" on the closed, empty error channel
LogsWaiterGetsZero ==
    /\ ~quit /\ ~Exited
    /\ \E h \in DOMAIN logStreams :
          /\ logStreams[h].closed
          /\ ~logStreams[h].err
          /\ BagIn(WaitLogs(h), tasks)
          /\ tasks' = Add(Remove(tasks, WaitLogs(h)),
                          Task("logsMsg", h, ZeroVal, 0))
    /\ UNCHANGED <<m, statsStreams, logStreams, quit, writeChan, store, calls, reply, main, view>>

\* waitForLogs, "case entry, ok := <-logsChan" with !ok: the command
\* returns nil, which the control loop drops
LogsWaiterGetsClosed ==
    /\ ~quit /\ ~Exited
    /\ \E h \in DOMAIN logStreams :
          /\ logStreams[h].closed
          /\ BagIn(WaitLogs(h), tasks)
          /\ tasks' = Remove(tasks, WaitLogs(h))
    /\ UNCHANGED <<m, statsStreams, logStreams, quit, writeChan, store, calls, reply, main, view>>

---------------------------------------------------------------------------
(* A store opened on an existing table, and the callers of Query *)

\* the moments at which Query is called
Clock == {1000000, 1000030}

\* the samples a table may hold: <<timestamp, cpu_percent>>, with the ages
\* 0 s to eight days at the first moment of Clock; memory_percent follows
Samples ==
    {<<1000000, 1>>, <<999985, 1>>, <<999985, 4>>, <<999975, 4>>,
     <<999965, 4>>, <<998200, 2>>, <<996400, 2>>, <<395200, 1>>,
     <<308800, 2>>}

\* rows in one table
MaxRows == 3

TableRows ==
    {Row(id, sm[1], sm[2], 50 + sm[2]) : id \in ContainerIDs, sm \in Samples}

Tables == UNION {[1..n -> TableRows] : n \in 0..MaxRows}

\* a store opened on a database file that already holds a table
InitTable ==
    /\ m = NewModel
    /\ statsStreams = <<>>
    /\ logStreams = <<>>
    /\ tasks = Add(Add(EmptyBag, Fetch), Tick)
    /\ quit = FALSE
    /\ writeChan = <<>>
    /\ store \in {[NewStorage EXCEPT !.rows = table] : table \in Tables}
    /\ calls = 0
    /\ reply = NoReply
    /\ main = NewMain
    /\ view = NoView

\* the one caller of a run calls Storage.Query on the open database
QueryCall ==
    /\ ~store.dbClosed
    /\ reply = NoReply
    /\ \E id \in ContainerIDs, timeRange \in TimeRanges, now \in Clock :
          reply' = [id |-> id, range |-> timeRange, now |-> now,
                    points |-> Query(store.rows, id, timeRange, now)]
    /\ UNCHANGED <<tui, writeChan, store, calls, main, view>>

\* the tables behind the graph: empty, or one row of container "a"
GraphTables ==
    {<<>>} \cup {<<row>> : row \in {r \in TableRows : r.ContainerID = "a"}}

\* the program started on a database file that already holds such a table
InitGraph ==
    /\ m = NewModel
    /\ statsStreams = <<>>
    /\ logStreams = <<>>
    /\ tasks = Add(Add(EmptyBag, Fetch), Tick)
    /\ quit = FALSE
    /\ writeChan = <<>>
    /\ store \in {[NewStorage EXCEPT !.rows = table] : table \in GraphTables}
    /\ calls = 0
    /\ reply = NoReply
    /\ main = NewMain
    /\ view = NoView

\* Model.View draws the graph panel: the frame of a run that is looked at.
\* Storage.Query answers, or fails
View ==
    /\ ~quit /\ ~Exited
    /\ view = NoView
    /\ \E now \in Clock, failed \in BOOLEAN :
          LET result ==
                 IF failed THEN QueryResult(<<>>, TRUE)
                 ELSE QueryResult(Query(store.rows, m.currentContainerID,
                                        m.timeRange, now), FALSE)
          IN view' = renderGraphPanel(m, result)
    /\ UNCHANGED <<tui, writeChan, store, calls, reply, main>>

---------------------------------------------------------------------------
(* internal/storage: Storage.cleanup and batchDelete *)

\* "const batchSize = 1000" of batchDelete, scaled down
DeleteBatch == 1

\* "-7 * 24 * time.Hour", in seconds
Retention == 7 * 24 * 3600

\* the filter as it would be with "timestamp <= ?"
ExpiredThroughCutoff(rows, cutoff) ==
    {i \in DOMAIN rows : rows[i].Timestamp <= cutoff}

\* "WHERE timestamp < ?": the rows' indices
Expired(rows, cutoff) ==
    {i \in DOMAIN rows : rows[i].Timestamp < cutoff}

\* the rows without those at the indices gone
RECURSIVE Delete(_, _)
Delete(rows, gone) ==
    IF rows = <<>> THEN <<>>
    ELSE LET n == Len(rows)
             front == Delete(SubSeq(rows, 1, n - 1), gone)
         IN IF n \in gone THEN front ELSE Append(front, rows[n])

\* cleanup, "case <-ticker.C": the hourly tick starts a run
CleanupTicks ==
    /\ store.cleaner # "deleting"
    /\ \E now \in Clock :
          store' = [store EXCEPT !.cleaner = "deleting",
                                 !.cutoff = now - Retention,
                                 !.deleted = 0, !.failed = FALSE]
    /\ UNCHANGED <<tui, writeChan, calls, reply, main, view>>

\* batchDelete, one "DELETE ... WHERE timestamp < ? LIMIT ?" that works:
\* it removes up to DeleteBatch of the expired rows, whichever the database
\* picks; when none is left the run ends
DeleteRuns ==
    /\ store.cleaner = "deleting"
    /\ ~store.dbClosed
    /\ LET expired == Expired(store.rows, store.cutoff)
       IN IF expired = {}
          THEN store' = [store EXCEPT !.cleaner = "finished"]
          ELSE \E gone \in SUBSET expired :
                  /\ \/ Cardinality(gone) = DeleteBatch
                     \/ gone = expired /\ Cardinality(gone) < DeleteBatch
                  /\ store' = [store EXCEPT
                                  !.rows = Delete(store.rows, gone),
                                  !.deleted = @ + Cardinality(gone)]
    /\ UNCHANGED <<tui, writeChan, calls, reply, main, view>>

\* batchDelete, the statement returns an error (the database is locked or
\* closed, the statement is refused): "return"
DeleteFails ==
    /\ store.cleaner = "deleting"
    /\ store' = [store EXCEPT !.cleaner = "finished", !.failed = TRUE]
    /\ UNCHANGED <<tui, writeChan, calls, reply, main, view>>

---------------------------------------------------------------------------
(* cmd/dockermon: main around p.Run() *)

\* p.Run() returns nil after tea.Quit; main returns and its deferred calls
\* start
RunReturns ==
    /\ quit
    /\ main.pc = "run"
    /\ main' = [main EXCEPT !.pc = "defer"]
    /\ UNCHANGED <<tui, writeChan, store, calls, reply, view>>

\* p.Run() returns an error: "os.Exit(1)" ends the process on the spot
RunFails ==
    /\ ~quit
    /\ main.pc = "run"
    /\ main' = [main EXCEPT !.pc = "exit"]
    /\ UNCHANGED <<tui, writeChan, store, calls, reply, view>>

\* "defer store.Close()", the later defer, runs first
DeferredStoreCloseSignals == main.pc = "defer" /\ CloseSignals

DeferredStoreCloseReturns == main.pc = "defer" /\ CloseReturns

\* "defer client.Close()" runs last; then the process ends
DeferredClientClose ==
    /\ main.pc = "defer"
    /\ store.dbClosed
    /\ main' = [pc |-> "exit", client |-> "closed"]
    /\ UNCHANGED <<tui, writeChan, store, calls, reply, view>>

---------------------------------------------------------------------------
(* Specifications.  Each is the program under one kind of backend and     *)
(* user; the handlers are the same in all of them.                        *)

\* The lifecycle under every list result and the navigation keys, with
\* streams that deliver items and stay open.
Next ==
    \/ KeyQuit \/ KeyUp \/ KeyDown
    \/ TickMsg \/ ContainersErrMsg \/ ContainersMsg(ContainerLists)
    \/ StatsMsg \/ LogsMsg
    \/ StatsSend(MaxItems) \/ LogsSend(MaxItems)
    \/ WriterReceives \/ WriterTicks

Spec == Init /\ [][Next]_vars

\* The lists of a backend with two containers, the first of them running
RunningLists ==
    {l \in ContainerLists : Len(l) = 2 /\ l[1].State = "running"}

\* Chattier containers: log streams that deliver two lines more, under
\* lists that always hold both containers.
NextOrder ==
    \/ KeyUp \/ KeyDown
    \/ TickMsg \/ ContainersMsg(RunningLists)
    \/ StatsMsg \/ LogsMsg
    \/ StatsSend(MaxItems) \/ LogsSend(MaxItems + 2)
    \/ WriterReceives \/ WriterTicks

SpecOrder == Init /\ [][NextOrder]_vars

\* The lists of a backend with the one container "a"
SingleLists == {l \in ContainerLists : Len(l) = 1 /\ l[1].ID = "a"}

\* Streams that end: the producers return, by an error or without one, and
\* the waiters meet closed channels.  One container, started and stopped.
NextEnd ==
    \/ TickMsg \/ ContainersMsg(SingleLists)
    \/ StatsMsg \/ LogsMsg
    \/ StatsSend(MaxItems) \/ LogsSend(MaxItems)
    \/ StatsProducerReturns \/ LogsProducerReturns
    \/ StatsWaiterGetsErr \/ StatsWaiterGetsZero
    \/ LogsWaiterGetsErr \/ LogsWaiterGetsZero \/ LogsWaiterGetsClosed
    \/ WriterReceives \/ WriterTicks

SpecEnd == Init /\ [][NextEnd]_vars

\* A talkative container: its log stream delivers one line more than the
\* buffer holds, fails, ends, and is read after it was closed.
NextLogs ==
    \/ TickMsg \/ ContainersMsg(SingleLists)
    \/ LogsMsg \/ LogsSend(MaxLogs + 1)
    \/ LogsProducerReturns
    \/ LogsWaiterGetsErr \/ LogsWaiterGetsZero \/ LogsWaiterGetsClosed

SpecLogs == Init /\ [][NextLogs]_vars

\* Stats streams that deliver a second sample, under lists that always
\* hold both containers; the writer stores what Update enqueues.
NextStats ==
    \/ KeyUp \/ KeyDown
    \/ TickMsg \/ ContainersMsg(RunningLists)
    \/ StatsMsg \/ StatsSend(MaxItems + 1)
    \/ FlushReceives \/ FlushTicks

SpecStats == Init /\ [][NextStats]_vars

\* A backend that fails: the list request, the stats stream, the log stream.
NextErr ==
    \/ TickMsg \/ ContainersErrMsg \/ ContainersMsg(SingleLists)
    \/ StatsMsg \/ LogsMsg
    \/ StatsSend(MaxItems) \/ LogsSend(MaxItems)
    \/ StatsProducerReturns \/ LogsProducerReturns
    \/ StatsWaiterGetsErr \/ LogsWaiterGetsErr

SpecErr == Init /\ [][NextErr]_vars

\* The whole program: one container that reports samples, the writer, the
\* quit key, and main around the control loop.
NextMain ==
    \/ KeyQuit
    \/ TickMsg \/ ContainersMsg(SingleLists)
    \/ StatsMsg \/ StatsSend(MaxItems + 1)
    \/ FlushReceives \/ FlushTicks \/ FlushCloses
    \/ RunReturns \/ RunFails
    \/ DeferredStoreCloseSignals \/ DeferredStoreCloseReturns
    \/ DeferredClientClose

SpecMain == Init /\ [][NextMain]_vars

\* The log panel: a talkative container, the scroll keys, and a terminal
\* that is resized.
NextScroll ==
    \/ WindowSizeMsg \/ KeyLogs
    \/ TickMsg \/ ContainersMsg(SingleLists)
    \/ LogsMsg \/ LogsSend(MaxLogs + 1)

SpecScroll == Init /\ [][NextScroll]_vars

\* The graph panel: the range keys, samples of the one container the first
\* list result brings, and a frame drawn from a table that Storage.Query
\* may fail to read.
NextGraph ==
    \/ KeyTimeRange \/ View
    \/ ContainersMsg(SingleLists)
    \/ StatsMsg \/ StatsSend(MaxItems + 1)

SpecGraph == InitGraph /\ [][NextGraph]_vars

\* Starting, stopping and restarting containers: the navigation keys, the
\* action keys, and every list the backend can answer with.
NextAction ==
    \/ KeyUp \/ KeyDown \/ KeyAction \/ ActionMsg
    \/ TickMsg \/ ContainersMsg(ContainerLists)

SpecAction == Init /\ [][NextAction]_vars

\* Polling: the 2 s timer fires and the backend answers every list request,
\* with a list or with an error, until the user quits.
NextTick ==
    \/ KeyQuit
    \/ TickMsg \/ ContainersErrMsg \/ ContainersMsg(ContainerLists)

SpecTick ==
    /\ Init /\ [][NextTick]_vars
    /\ WF_vars(TickMsg)
    /\ WF_vars(ContainersErrMsg \/ ContainersMsg(ContainerLists))

\* The lists of a backend with two running containers
BothRunningLists == {l \in RunningLists : l[2].State = "running"}

\* Long-running containers: the stats stream of the first delivers items up
\* to the one after the tenth, and moving down to the second container
\* opens a second stream.
NextProcs ==
    \/ KeyDown
    \/ ContainersMsg(BothRunningLists)
    \/ StatsMsg \/ StatsSend(ProcEvery + 2)

SpecProcs == Init /\ [][NextProcs]_vars

\* The lists of a backend that has one container at a time
OneContainerLists == {l \in ContainerLists : Len(l) = 1}

\* Refreshing by hand: the R key starts list requests next to the polling
\* ones, so that several are answered in any order; the container shown
\* logs a line.
NextRefresh ==
    \/ KeyRefresh
    \/ TickMsg \/ ContainersMsg(OneContainerLists)
    \/ LogsMsg \/ LogsSend(MaxItems)

SpecRefresh == Init /\ [][NextRefresh]_vars

\* Streams that end, with every goroutine scheduled: producers hand over
\* and return, waiters read what is ready, Update handles what arrives.  A
\* waiter's select draws among its ready cases at random, so the closed
\* log channel is drawn sooner or later.
NextQuiet ==
    \/ TickMsg \/ ContainersMsg(SingleLists)
    \/ StatsMsg \/ LogsMsg
    \/ StatsSend(MaxItems) \/ LogsSend(MaxItems)
    \/ StatsProducerReturns \/ LogsProducerReturns
    \/ StatsWaiterGetsErr \/ StatsWaiterGetsZero
    \/ LogsWaiterGetsErr \/ LogsWaiterGetsZero \/ LogsWaiterGetsClosed

SpecQuiet ==
    /\ Init /\ [][NextQuiet]_vars
    /\ WF_vars(StatsMsg) /\ WF_vars(LogsMsg)
    /\ WF_vars(StatsProducerReturns) /\ WF_vars(LogsProducerReturns)
    /\ WF_vars(StatsWaiterGetsErr) /\ WF_vars(StatsWaiterGetsZero)
    /\ WF_vars(LogsWaiterGetsErr) /\ SF_vars(LogsWaiterGetsClosed)

\* Streams that end before they are cancelled: the container's stats and
\* log streams fail or end, the errors are read, and list results that
\* stop the container or bring another one make Update cancel them.
NextCancel ==
    \/ TickMsg \/ ContainersMsg(OneContainerLists)
    \/ StatsMsg \/ LogsMsg
    \/ StatsProducerReturns \/ LogsProducerReturns
    \/ StatsWaiterGetsErr \/ LogsWaiterGetsErr

SpecCancel == Init /\ [][NextCancel]_vars

\* The store with a database that works and is never closed; the writer
\* goroutine keeps running: a waiting entry is received, the ticker fires.
NextFlush == StoreWrite \/ FlushReceives \/ FlushTicks

SpecFlush ==
    Init /\ [][NextFlush]_vars /\ WF_vars(FlushReceives) /\ WF_vars(FlushTicks)

\* Queries against every small table
SpecQuery == InitTable /\ [][QueryCall]_vars

\* The retention cleanup against every small table
NextClean == CleanupTicks \/ DeleteRuns \/ DeleteFails

SpecClean == InitTable /\ [][NextClean]_vars

\* The store with a database that works, fed by a caller and then closed.
NextClose ==
    \/ StoreWrite \/ FlushReceives \/ FlushTicks \/ FlushCloses
    \/ CloseSignals \/ CloseReturns

SpecClose == Init /\ [][NextClose]_vars

\* The store alone, fed by a caller: the writer, its timer, Close.
NextStore ==
    \/ StoreWrite \/ WriterReceives \/ WriterTicks \/ WriterCloses
    \/ CloseSignals \/ CloseReturns

SpecStore == Init /\ [][NextStore]_vars

---------------------------------------------------------------------------
(* Properties of the stream lifecycle *)

\* the streams whose cancel func has not been called
Uncancelled(streams) == {h \in DOMAIN streams : ~streams[h].cancelled}

\* no stream message and no list result is on its way to Update
Settled == Count({"statsMsg", "logsMsg", "fetch"}) = 0

\* this step is Update handling the message msg
Handles(msg) == CopiesIn(msg, tasks') < CopiesIn(msg, tasks)

\* this step ran the lifecycle re-evaluation on a list that is not empty:
\* the cursor moved, or a list result differed from the list shown
Reevaluated ==
    /\ Len(m'.containers) > 0
    /\ \/ m'.cursor # m.cursor
       \/ containersListChanged(m.containers, m'.containers)

\* the container under the cursor
Selected(mm) == mm.containers[mm.cursor + 1]

\* C1: at every instant at most one stats stream and at most one log stream
\* is un-cancelled, and once the messages have settled every un-cancelled
\* stream is a stream of the container under the cursor.
C1_StreamsFollowCursor ==
    /\ Cardinality(Uncancelled(statsStreams)) <= 1
    /\ Cardinality(Uncancelled(logStreams)) <= 1
    /\ Settled =>
          /\ \A h \in Uncancelled(statsStreams) :
                Len(m.containers) > 0 /\ statsStreams[h].id = Selected(m).ID
          /\ \A h \in Uncancelled(logStreams) :
                Len(m.containers) > 0 /\ logStreams[h].id = Selected(m).ID

\* C2: Update applies no statsMsg and no logsMsg whose stream has had its
\* cancel func called.
C2_NoMessageAfterCancel ==
    [][\A msg \in BagToSet(tasks) :
          /\ (msg.type = "statsMsg" /\ Handles(msg))
                => ~statsStreams[msg.stream].cancelled
          /\ (msg.type = "logsMsg" /\ Handles(msg))
                => ~logStreams[msg.stream].cancelled]_vars

\* C3: after a lifecycle re-evaluation that finds the container under the
\* cursor not running, both streams the Model held are cancelled, both
\* handles are dropped and currentStats is cleared.
C3_NotRunningStopsBoth ==
    [][(Reevaluated /\ Selected(m').State # "running") =>
          /\ m'.statsCancel = Nil
          /\ m'.logsCancel = Nil
          /\ m.statsCancel # Nil => statsStreams'[m.statsCancel].cancelled
          /\ m.logsCancel # Nil => logStreams'[m.logsCancel].cancelled
          /\ m'.currentStats = NilStats]_vars

\* C4: a list refresh in which the selected container keeps its ID and goes
\* from not running to running opens a new stats stream and a new log
\* stream for it and records both handles.
C4_RestartOpensBoth ==
    [][(/\ Len(m.containers) > 0
        /\ Reevaluated
        /\ Selected(m).ID = m.currentContainerID
        /\ Selected(m').ID = m.currentContainerID
        /\ Selected(m).State # "running"
        /\ Selected(m').State = "running") =>
          /\ statsStreams' = OpenStream(statsStreams, Selected(m').ID)
          /\ m'.statsCancel = Len(statsStreams')
          /\ logStreams' = OpenStream(logStreams, Selected(m').ID)
          /\ m'.logsCancel = Len(logStreams')]_vars

\* C5: a successful list result that is empty, arriving while a stats and a
\* log stream are active, leaves the cursor at 0, both streams cancelled,
\* both handles dropped and no current sample.
C5_EmptyListStopsAll ==
    [][(/\ Len(m.containers) > 0
        /\ Len(m'.containers) = 0
        /\ m.statsCancel # Nil /\ ~statsStreams[m.statsCancel].cancelled
        /\ m.logsCancel # Nil /\ ~logStreams[m.logsCancel].cancelled) =>
          /\ m'.cursor = 0
          /\ statsStreams'[m.statsCancel].cancelled
          /\ logStreams'[m.logsCancel].cancelled
          /\ m'.statsCancel = Nil
          /\ m'.logsCancel = Nil
          /\ m'.currentStats = NilStats]_vars

\* C6: a re-evaluation that finds a running container with another ID under
\* the cursor cancels the old stats and log streams, empties the log buffer,
\* zeroes the scroll offset and both histories, forgets the process
\* snapshot, opens exactly one stats and one log stream for the new ID with
\* one waiter each, records their handles and records the new ID.
C6_SwitchRestartsBoth ==
    [][(/\ Len(m'.containers) > 0
        /\ Selected(m').ID # m.currentContainerID
        /\ Selected(m').State = "running") =>
          /\ statsStreams' =
                OpenStream(CancelStream(statsStreams, m.statsCancel),
                           Selected(m').ID)
          /\ logStreams' =
                OpenStream(CancelStream(logStreams, m.logsCancel),
                           Selected(m').ID)
          /\ m'.logs = <<>> /\ m'.logsScroll = 0
          /\ m'.cpuHistory = Zeros /\ m'.memoryHistory = Zeros
          /\ m'.currentProcesses = Nil
          /\ m'.statsCancel = Len(statsStreams')
          /\ m'.statsChan = Len(statsStreams')
          /\ m'.logsCancel = Len(logStreams')
          /\ m'.logsChan = Len(logStreams')
          /\ tasks' (-) tasks = SetToBag({WaitStats(m'.statsChan),
                                          WaitLogs(m'.logsChan)})
          /\ m'.currentContainerID = Selected(m').ID]_vars

\* C6 happened with something to reset: the first container's streams had
\* each delivered an item that Update applied, the cursor then went to a
\* running container with another ID
C6_Switched ==
    /\ Len(statsStreams) = 2 /\ Len(logStreams) = 2
    /\ statsStreams[1].id # statsStreams[2].id
    /\ logStreams[1].id # logStreams[2].id
    /\ statsStreams[1].cancelled /\ logStreams[1].cancelled
    /\ statsStreams[1].emitted = 1 /\ logStreams[1].emitted = 1
    /\ Count({"statsMsg", "logsMsg"}) = 0
    /\ m.statsCancel = 2 /\ m.logsCancel = 2
    /\ m.currentContainerID = statsStreams[2].id
    /\ m.cpuHistory = Zeros /\ m.logs = <<>>

\* C9: the cursor is never negative and, while the list is not empty, never
\* beyond its last index.
C9_CursorInRange ==
    /\ m.cursor >= 0
    /\ Len(m.containers) > 0 => m.cursor <= Len(m.containers) - 1

\* C9 at its upper limit: the cursor on the last row of the longest list
C9_CursorOnLast == Len(m.containers) = 2 /\ m.cursor = 1

---------------------------------------------------------------------------
(* Properties of streams that fail, and of the order of their items *)

\* C7: when Update handles a stream's error message it sets the status
\* message and drops that stream's cancel handle, and without a later
\* lifecycle re-evaluation it opens no stream.
C7_ErrorDropsHandle ==
    [][\A msg \in BagToSet(tasks) :
          /\ (msg.type = "statsMsg" /\ msg.val = ErrVal /\ Handles(msg)) =>
                /\ m'.message = "Stats error"
                /\ m'.statsCancel = Nil
                /\ statsStreams' = statsStreams
          /\ (msg.type = "logsMsg" /\ msg.val = ErrVal /\ Handles(msg)) =>
                /\ m'.message = "Logs error"
                /\ m'.logsCancel = Nil
                /\ logStreams' = logStreams]_vars

\* the items of one stream appear in seq in the order of their numbers
InEmissionOrder(seq, src(_), num(_)) ==
    \A i, j \in DOMAIN seq :
        (i < j /\ src(seq[i]) # Nil /\ src(seq[i]) = src(seq[j]))
            => num(seq[i]) < num(seq[j])

\* the stream and the number of a point of the CPU history
PointSrc(v) == v \div 10
PointNum(v) == v % 10
EntrySrc(e) == e.src
EntryNum(e) == e.seq

\* C8: the items of one stream are applied in the order the producer
\* emitted them: the log buffer and the CPU history hold each stream's
\* items in increasing order.
C8_AppliedInEmissionOrder ==
    /\ InEmissionOrder(m.logs, EntrySrc, EntryNum)
    /\ InEmissionOrder(m.cpuHistory, PointSrc, PointNum)

---------------------------------------------------------------------------
(* Properties of the store *)

\* C10: Write never blocks; a call with room in the queue appends its entry
\* to the queue, a call on a full queue leaves the queue as it was, and
\* neither touches the rows (nor anything else of the store).
C10_WriteNeverBlocks ==
    /\ []((calls < MaxWrites /\ ~store.closeChan) => ENABLED StoreWrite)
    /\ [][(calls' = calls + 1) =>
            /\ IF Len(writeChan) < QueueCap
               THEN writeChan' = Append(writeChan, CallEntry(calls'))
               ELSE writeChan' = writeChan
            /\ store' = store]_vars

\* C10 after a discard: more calls than the queue holds, and the first
\* call's entry is still at the head, so the writer has taken none
C10_Discarded ==
    /\ Len(writeChan) = QueueCap
    /\ Head(writeChan) = CallEntry(1)
    /\ calls > QueueCap

\* the entries of the caller's first n calls, in call order
Entries(n) == [i \in 1..n |-> CallEntry(i)]

\* this step the writer flushed: the rows changed
Flushed == store.rows' # store.rows
\* this step the writer took an entry from the queue
Received == Len(writeChan') < Len(writeChan)

\* C11: when no more entries are written than the queue holds, and the
\* database works and is not closed, eventually the rows are exactly the
\* written entries, each once; a flush on receipt persists a full batch of
\* BatchSize entries, a flush by the timer the shorter remainder.
C11_AllWrittenPersisted ==
    /\ <>[](calls <= QueueCap => store.rows = Entries(calls))
    /\ [][(Flushed /\ calls <= QueueCap) =>
            \E k \in 1..BatchSize :
               /\ store.rows' = store.rows \o
                     SubSeq(Entries(calls), Len(store.rows) + 1,
                            Len(store.rows) + k)
               /\ Received <=> k = BatchSize]_vars

\* C11 with as many entries as the queue holds, more than one batch, all
\* persisted
C11_AllRows ==
    /\ calls = QueueCap /\ calls > BatchSize
    /\ store.rows = Entries(calls)

\* C12: the buffer never holds BatchSize entries between writer steps: the
\* receipt that fills it flushes it and leaves it empty, any other receipt
\* only appends; a timer flush persists the whole buffer and leaves it
\* empty; and a buffer that is not empty is eventually flushed.
C12_FlushAtSizeOrTimer ==
    /\ [](Len(store.buffer) < BatchSize)
    /\ [][/\ Received =>
               LET buffer == Append(store.buffer, Head(writeChan))
               IN IF Len(buffer) >= BatchSize
                  THEN /\ store.buffer' = <<>>
                       /\ store.rows' = store.rows \o buffer
                  ELSE /\ store.buffer' = buffer
                       /\ store.rows' = store.rows
          /\ (Flushed /\ ~Received) =>
               /\ store.buffer' = <<>>
               /\ store.rows' = store.rows \o store.buffer]_vars
    /\ (Len(store.buffer) > 0) ~> (Len(store.buffer) = 0)

\* C12 after the size-triggered flush: a full batch persisted as the last
\* of its entries left the queue
C12_BatchFlushed ==
    /\ calls = BatchSize
    /\ store.rows = Entries(BatchSize)
    /\ store.buffer = <<>> /\ writeChan = <<>>

\* the batch a flushing step hands to batchWrite
Batch ==
    IF Received THEN Append(store.buffer, Head(writeChan)) ELSE store.buffer

\* C13: a flush is all or nothing: a step of the writer either leaves the
\* rows as they were or adds every entry of its batch.
C13_FlushAllOrNothing ==
    [][Flushed => store.rows' = store.rows \o Batch]_vars

\* C14: when Close closes the database handle the writer has returned from
\* its final flush, or it holds no buffered entry left to flush.
C14_FinalFlushBeforeDbClose ==
    [][(store.dbClosed' /\ ~store.dbClosed) =>
          (store.writerDone \/ store.buffer = <<>>)]_vars

---------------------------------------------------------------------------
(* Properties of Storage.Query *)

\* the lookback of each range and the bucket width of the aggregated ones,
\* in seconds
Lookback ==
    [r \in TimeRanges |->
        CASE r = "Range30Min" -> 1800 [] r = "Range1Hour" -> 3600
          [] r = "Range6Hour" -> 21600 [] r = "Range1Day" -> 86400
          [] r = "Range1Week" -> 604800]
Width ==
    [r \in TimeRanges \ {"Range30Min"} |->
        CASE r = "Range1Hour" -> 30 [] r = "Range6Hour" -> 300
          [] r = "Range1Day" -> 600 [] r = "Range1Week" -> 3600]

\* the rows the last query was about: those of its container that are
\* newer than its moment minus the lookback
Matching ==
    {i \in DOMAIN store.rows :
        /\ store.rows[i].ContainerID = reply.id
        /\ store.rows[i].Timestamp > reply.now - Lookback[reply.range]}

\* the quotient q is the arithmetic mean of the values vals
IsMean(q, vals, idxs) ==
    q.n > 0 /\ q.sum * Cardinality(idxs) = SumOver(vals, idxs) * q.n

\* the point p is the raw sample of row
IsSample(p, row) ==
    /\ p.Timestamp = row.Timestamp
    /\ IsMean(p.CPUPercent, <<row.CPUPercent>>, {1})
    /\ IsMean(p.MemoryPercent, <<row.MemoryPercent>>, {1})

\* C15: what Query returned is the reference aggregation of the matching
\* rows: ordered by timestamp; for Range30Min one point per matching row,
\* carrying its sample; for the other ranges one point per non-empty bucket
\* floor(timestamp / width) * width, carrying the means of the bucket's
\* samples; empty when no row matches.
C15_QueryIsReference ==
    reply # NoReply =>
        LET pts == reply.points
            rows == store.rows
        IN /\ \A i, j \in DOMAIN pts :
                 i < j => pts[i].Timestamp <= pts[j].Timestamp
           /\ Matching = {} => pts = <<>>
           /\ IF reply.range = "Range30Min"
              THEN \E f \in [DOMAIN pts -> Matching] :
                      /\ \A i, j \in DOMAIN pts : i # j => f[i] # f[j]
                      /\ \A k \in Matching : \E i \in DOMAIN pts : f[i] = k
                      /\ \A i \in DOMAIN pts : IsSample(pts[i], rows[f[i]])
              ELSE LET w == Width[reply.range]
                       bucketOf(i) == (rows[i].Timestamp \div w) * w
                   IN /\ {pts[j].Timestamp : j \in DOMAIN pts}
                            = {bucketOf(i) : i \in Matching}
                      /\ \A i, j \in DOMAIN pts :
                            i # j => pts[i].Timestamp # pts[j].Timestamp
                      /\ \A j \in DOMAIN pts :
                            LET g == {i \in Matching :
                                        bucketOf(i) = pts[j].Timestamp}
                            IN /\ IsMean(pts[j].CPUPercent,
                                         CPUColumn(rows), g)
                               /\ IsMean(pts[j].MemoryPercent,
                                         MemoryColumn(rows), g)

\* C15 on an aggregated range: two buckets in order, the older of them
\* averaging two different samples
C15_TwoBuckets ==
    /\ reply.range = "Range1Hour"
    /\ Len(reply.points) = 2
    /\ reply.points[1].CPUPercent = Real(5, 2)
    /\ Cardinality(Matching) = 3

---------------------------------------------------------------------------
(* Properties of the retention cleanup *)

\* the rows of rows that are not older than cutoff, in their order
Retained(rows, cutoff) ==
    SelectSeq(rows, LAMBDA row : row.Timestamp >= cutoff)

\* every row that is not older than the run's cutoff stays, and one
\* statement removes at most DeleteBatch rows
KeepsRetained ==
    [][store.cleaner' = "deleting" =>
          /\ Retained(store.rows', store.cutoff')
                = Retained(store.rows, store.cutoff')
          /\ Len(store.rows) - Len(store.rows') \in 0..DeleteBatch]_vars

\* a run ends without an error only by a statement that deleted nothing
EndsOnEmptyBatch ==
    [][(store.cleaner = "deleting" /\ store.cleaner' = "finished"
            /\ ~store.failed') =>
          /\ store.rows' = store.rows
          /\ Expired(store.rows, store.cutoff) = {}]_vars

---------------------------------------------------------------------------
(* Properties of Update's stream results *)

\* the messages of one type that wait for Update
Waiting(type) == {msg \in BagToSet(tasks) : msg.type = type}

\* C17: the log buffer never holds more than MaxLogs entries and none with
\* an empty message; Update appends the entry of a logsMsg at the end, a
\* full buffer losing exactly its oldest entry and keeping the others in
\* order; a logsMsg with an empty message leaves the buffer as it is.
C17_LogBufferBounded ==
    /\ [](/\ Len(m.logs) <= MaxLogs
          /\ \A i \in DOMAIN m.logs : m.logs[i].seq # ZeroVal)
    /\ [][\A msg \in Waiting("logsMsg") :
             Handles(msg) =>
                LET entry == LogEntry(msg.stream, msg.val)
                IN /\ msg.val > 0 =>
                         m'.logs = IF Len(m.logs) = MaxLogs
                                   THEN Tail(m.logs) \o <<entry>>
                                   ELSE m.logs \o <<entry>>
                   /\ msg.val = ZeroVal => m'.logs = m.logs]_vars

\* C17 after one line more than the buffer holds: the first one is gone
C17_OldestDropped ==
    /\ Len(m.logs) = MaxLogs
    /\ \A i \in DOMAIN m.logs : m.logs[i].seq = i + 1

\* history is hist shifted left by one with value at the last index
Shifted(history, hist, value) ==
    /\ Len(history) = Len(hist)
    /\ \A i \in 1..(Len(hist) - 1) : history[i] = hist[i + 1]
    /\ history[Len(history)] = value

\* C18: the CPU and the memory history always hold exactly MaxDataPoints
\* values; they are all zero at the start and right after the selection
\* moved to another container; every sample Update receives shifts both
\* left by one and puts the sample's CPU and memory percent last.
C18_HistoryFixedLength ==
    /\ [](Len(m.cpuHistory) = MaxDataPoints
             /\ Len(m.memoryHistory) = MaxDataPoints)
    /\ [](m.currentContainerID = "" =>
             \A i \in 1..MaxDataPoints :
                m.cpuHistory[i] = 0 /\ m.memoryHistory[i] = 0)
    /\ [][m'.currentContainerID # m.currentContainerID =>
             \A i \in 1..MaxDataPoints :
                m'.cpuHistory[i] = 0 /\ m'.memoryHistory[i] = 0]_vars
    /\ [][\A msg \in Waiting("statsMsg") :
             (Handles(msg) /\ msg.val > 0) =>
                LET stats == Stats(msg.stream, msg.val, msg.procs)
                IN /\ Shifted(m'.cpuHistory, m.cpuHistory, CPUPercent(stats))
                   /\ Shifted(m'.memoryHistory, m.memoryHistory,
                              MemoryPercent(stats))]_vars

\* C18 after two samples: the earlier one has moved one place to the left
C18_TwoSamples ==
    /\ m.cpuHistory[MaxDataPoints] = CPUPercent(m.currentStats)
    /\ m.cpuHistory[MaxDataPoints - 1] # 0
    /\ m.memoryHistory[MaxDataPoints] = MemoryPercent(m.currentStats)
    /\ m.memoryHistory[MaxDataPoints - 1] # 0

\* C19: a statsMsg with a sample makes it the current sample and hands
\* Storage.Write exactly one entry with the selected container's ID and the
\* sample's values; the process snapshot is replaced only by a sample that
\* carries processes.
C19_SampleStoredOnce ==
    [][\A msg \in Waiting("statsMsg") :
          (Handles(msg) /\ msg.val > 0) =>
             LET stats == Stats(msg.stream, msg.val, msg.procs)
                 entry == [ContainerID |-> Selected(m).ID,
                           CPUPercent |-> CPUPercent(stats),
                           MemoryPercent |-> MemoryPercent(stats),
                           src |-> msg.stream]
             IN /\ m'.currentStats = stats
                /\ Len(m.containers) > 0 => writeChan' = Write(writeChan, entry)
                /\ m'.currentProcesses =
                      IF msg.procs # 0 THEN msg.stream ELSE m.currentProcesses]_vars

\* C19 after a sample of the second container, without processes, while an
\* earlier snapshot is cached: its entry waits in the queue
C19_SecondContainerQueued ==
    /\ m.cursor = 1
    /\ m.currentStats.seq > 0 /\ m.currentStats.procs = 0
    /\ m.currentProcesses # Nil
    /\ \E i \in DOMAIN writeChan :
          /\ writeChan[i].ContainerID = Selected(m).ID
          /\ writeChan[i].CPUPercent = CPUPercent(m.currentStats)

\* the step leaves alone what an error must not touch: the list, the
\* cursor, the sample, the histories, the log buffer and its scroll state,
\* the stream handles and the streams behind them, the write queue
KeptOnError ==
    /\ m'.containers = m.containers /\ m'.cursor = m.cursor
    /\ m'.currentStats = m.currentStats
    /\ m'.cpuHistory = m.cpuHistory /\ m'.memoryHistory = m.memoryHistory
    /\ m'.logs = m.logs
    /\ m'.logsScroll = m.logsScroll /\ m'.logsAutoScroll = m.logsAutoScroll
    /\ m'.statsCancel = m.statsCancel /\ m'.statsChan = m.statsChan
    /\ m'.logsCancel = m.logsCancel /\ m'.logsChan = m.logsChan
    /\ statsStreams' = statsStreams /\ logStreams' = logStreams
    /\ writeChan' = writeChan

\* C20: a containersMsg, statsMsg or logsMsg that carries an error only
\* records it, in the list error or in the status message, and changes
\* neither the list, the cursor, the sample, the histories, the log buffer,
\* the scroll state, the stream handles nor the write queue.
C20_ErrorOnlyRecorded ==
    /\ [][ContainersErrMsg =>
             m'.err /\ m'.message = m.message /\ KeptOnError]_vars
    /\ [][\A msg \in Waiting("statsMsg") \cup Waiting("logsMsg") :
             (Handles(msg) /\ msg.val = ErrVal) =>
                /\ m'.message = IF msg.type = "statsMsg"
                                THEN "Stats error" ELSE "Logs error"
                /\ m'.err = m.err
                /\ KeptOnError]_vars

\* C20 after a failed list request and a failed stats stream, with the
\* sample and the log line of before still shown
C20_ErrorsShown ==
    /\ m.err /\ m.message = "Stats error"
    /\ m.currentStats.seq > 0
    /\ Len(m.logs) > 0
    /\ Len(m.containers) > 0

---------------------------------------------------------------------------
(* Properties of errors, quitting and main *)

\* C21: a list error is transient: a list result that succeeds afterwards
\* (it brings a new list) clears the recorded error, so that the list panel
\* shows the list and not the error.
C21_ListErrorCleared ==
    [][((\E fetch \in FetchTasks : Handles(fetch))
           /\ m'.containers # m.containers) =>
          renderListPanelContent(m') = "list"]_vars

\* C22: the quit command cancels every stream that is still active; only
\* afterwards the store is closed, with everything that was handed to it
\* flushed, and only after that the backend client is released.
C22_QuitCancelsFlushesReleases ==
    /\ [](quit => Uncancelled(statsStreams) = {}
                     /\ Uncancelled(logStreams) = {})
    /\ [](store.closeChan => quit)
    /\ [](main.client = "closed" => store.dbClosed)
    /\ [][(store.dbClosed' /\ ~store.dbClosed) =>
             /\ writeChan = <<>>
             /\ store.buffer = <<>> \/ store.writerDone]_vars

\* C23: however the control loop ends, the process does not end before
\* the store is closed and the client released.
C23_ClosedOnEveryExit ==
    main.pc = "exit" => store.dbClosed /\ main.client = "closed"

---------------------------------------------------------------------------
(* Properties of the log panel and the initial Model *)

\* the largest offset the claim allows: max(0, totalLines - visibleLines)
MaxOffset(mm) ==
    LET totalLines == Len(mm.logs)
        visibleLines == calculateVisibleLogLines(mm)
    IN IF totalLines - visibleLines > 0 THEN totalLines - visibleLines ELSE 0

\* C24: whatever messages were handled, the log scroll offset lies between
\* 0 and max(0, totalLines - visibleLines) for the buffer and the window
\* height of the moment.
C24_ScrollInRange == m.logsScroll \in 0..MaxOffset(m)

\* C25: pgup and home always leave auto-scroll disabled; pgdown and end
\* leave it enabled whenever they leave the offset at the maximum.
C25_ScrollKeysSetAutoScroll ==
    /\ \A key \in {"pgup", "home"} : ~logsKey(m, key).logsAutoScroll
    /\ \A key \in {"pgdown", "end"} :
          LET after == logsKey(m, key)
          IN after.logsScroll = MaxOffset(after) => after.logsAutoScroll

\* C26: Update, appending a log entry with a message, moves the offset to
\* the maximum for the new buffer when auto-scroll is enabled and leaves
\* the offset alone when it is disabled.
C26_AppendFollowsAutoScroll ==
    [][\A msg \in Waiting("logsMsg") :
          (Handles(msg) /\ msg.val > 0) =>
             /\ m'.logsAutoScroll = m.logsAutoScroll
             /\ m'.logsScroll = IF m.logsAutoScroll THEN MaxOffset(m')
                                ELSE m.logsScroll]_vars

\* C26 with both cases behind it: the view followed the second line to the
\* maximum offset, and auto-scroll is off now
C26_FollowedThenHeld ==
    /\ Len(m.logs) = MaxLogs
    /\ m.logsScroll = MaxOffset(m) /\ m.logsScroll > 0
    /\ ~m.logsAutoScroll

\* C27: the initial Model has no containers, is loading, shows the 30 min
\* range and has log auto-scroll enabled.
C27_InitialModel ==
    m = NewModel =>
       /\ m.containers = <<>>
       /\ m.loading
       /\ m.timeRange = "Range30Min"
       /\ m.logsAutoScroll

---------------------------------------------------------------------------
(* Properties of the graph panel and the container actions *)

\* C28: selecting a time range changes the Model's timeRange and nothing
\* else: no other field of the Model, no stream, no command, no write; and
\* the entry Update writes for a sample is the same under every range.
C28_RangeChangesOnlyQuery ==
    /\ [][m'.timeRange # m.timeRange =>
             /\ m' = [m EXCEPT !.timeRange = m'.timeRange]
             /\ UNCHANGED <<statsStreams, logStreams, tasks, writeChan,
                            store>>]_vars
    /\ [][\A msg \in Waiting("statsMsg") :
             (Handles(msg) /\ msg.val > 0) =>
                \A timeRange \in TimeRanges :
                   writeChan' = statsWrite([m EXCEPT !.timeRange = timeRange],
                                           writeChan, msg)]_vars

\* C28 with the week selected and a sample written
C28_WeekSelected ==
    /\ m.timeRange = "Range1Week"
    /\ m.currentStats.seq > 0
    /\ Len(writeChan) > 0

\* C29: drawing the graph never changes the Model, and when Storage.Query
\* fails the graph shows the in-memory CPU and memory histories.
C29_QueryFailureFallsBack ==
    [][view' # view =>
          /\ UNCHANGED <<m, tasks, quit>>
          /\ view'.err => /\ view'.from = "memory"
                          /\ view'.cpu = m.cpuHistory
                          /\ view'.mem = m.memoryHistory]_vars

\* C29 after a failed query with a sample in the histories
C29_HistoryDrawn ==
    /\ view.err
    /\ view.cpu = m.cpuHistory /\ view.cpu[MaxDataPoints] # 0
    /\ view.mem = m.memoryHistory

\* C30: a backend call for start, stop or restart is dispatched only while
\* the list is not empty, for the container under the
\* cursor, and changes nothing else; when the call has returned, Update
\* sets the status message to the success text or to the error and
\* schedules exactly one list refresh.
C30_ActionThenRefresh ==
    /\ [][\A verb \in Verbs, id \in ContainerIDs :
             CopiesIn(Action(verb, id), tasks')
                   > CopiesIn(Action(verb, id), tasks) =>
                /\ Len(m.containers) > 0
                /\ id = Selected(m).ID
                /\ tasks' = Add(tasks, Action(verb, id))
                /\ UNCHANGED <<m, statsStreams, logStreams>>]_vars
    /\ [][\A verb \in Verbs, id \in ContainerIDs :
             Handles(Action(verb, id)) =>
                /\ m'.message \in {verb, "Error"}
                /\ m' = [m EXCEPT !.message = m'.message]
                /\ \E fetch \in FetchTasks :
                      tasks' = Add(Remove(tasks, Action(verb, id)), fetch)
                /\ UNCHANGED <<statsStreams, logStreams>>]_vars

\* C30 after the second container was stopped: the message is shown and
\* the refresh is on its way
C30_StoppedSecond ==
    /\ m.cursor = 1
    /\ m.message = "Stopped"
    /\ CopiesIn(Fetch, tasks) = 1

---------------------------------------------------------------------------
(* Properties of polling *)

\* C31: until quit exactly one tick is pending at any time; every handled
\* tickMsg starts exactly one fetchContainers and exactly one next tick and
\* leaves the Model and the streams alone; and the list is fetched again
\* and again for as long as the loop runs.
C31_PollingNeverStops ==
    /\ [](~quit => Count({"tick"}) = 1)
    /\ [][TickMsg => /\ \E fetch \in FetchTasks : tasks' = Add(tasks, fetch)
                     /\ UNCHANGED <<m, statsStreams, logStreams>>]_vars
    /\ (<>quit) \/ []<><<TickMsg>>_vars

\* a list result has been handled and the next fetch, started by a later
\* tick, is on its way while the next tick is pending
C31_FetchedAgain ==
    /\ ~quit /\ ~m.loading /\ Len(m.containers) = 2
    /\ CopiesIn(Fetch, tasks) = 1 /\ CopiesIn(Tick, tasks) = 1

---------------------------------------------------------------------------
(* Properties of the cancel handles *)

\* this step called the cancel func of stream h of streams
Cancels(streams, h) == ~streams[h].cancelled /\ streams'[h].cancelled

\* calling the handle h once more changes nothing
CancelledOnce(streams, h) ==
    LET once == CancelStream(streams, h)
    IN /\ CancelStream(once, h) = once
       /\ streams[h].cancelled => once = streams

\* the step that cancels stream h after its producer returned changes
\* nothing of the stream but the mark of the call
CancelsEnded(streams, h) ==
    (Cancels(streams, h) /\ streams[h].closed) =>
        streams'[h] = [streams[h] EXCEPT !.cancelled = TRUE]

\* the step that cancels a stream of streams leaves a stream that had ended
\* as it was, and puts no message of the kind type of that stream on its way
CancelIsQuiet(streams, type) ==
    \A h \in DOMAIN streams :
       /\ CancelsEnded(streams, h)
       /\ Cancels(streams, h) =>
             \A msg \in BagToSet(tasks') :
                (msg.type = type /\ msg.stream = h) =>
                   CopiesIn(msg, tasks') <= CopiesIn(msg, tasks)

\* C32: a cancel handle invoked a second time, or after its stream ended by
\* itself, gives the same state as one invocation: the stream keeps what it
\* has emitted and reported, and the call puts no message on its way.
C32_CancelIdempotent ==
    /\ [](\A h \in DOMAIN statsStreams : CancelledOnce(statsStreams, h))
    /\ [](\A h \in DOMAIN logStreams : CancelledOnce(logStreams, h))
    /\ [][CancelIsQuiet(statsStreams, "statsMsg")]_vars
    /\ [][CancelIsQuiet(logStreams, "logsMsg")]_vars

\* the stats stream ended by itself, its error was read and shown, and the
\* container's stop then made Update call the stream's cancel func
C32_CancelledAfterEnd ==
    /\ Len(statsStreams) = 1
    /\ statsStreams[1].self /\ statsStreams[1].closed
    /\ statsStreams[1].cancelled /\ ~statsStreams[1].err
    /\ m.statsCancel = Nil /\ m.message = "Stats error"
    /\ Len(logStreams) = 1
    /\ logStreams[1].self /\ logStreams[1].closed
    /\ logStreams[1].cancelled

---------------------------------------------------------------------------
(* Properties of the stats producer *)

\* a process snapshot is fetched for item k
Fetches(k) == k = 1 \/ k % 10 = 0

\* this step is the producer of stats stream h handing over an item
Emits(h) ==
    /\ h \in DOMAIN statsStreams
    /\ statsStreams'[h].emitted # statsStreams[h].emitted

\* the item that step hands over: it is the next of the stream, it carries
\* the stream's snapshot, and the snapshot is a new one only if the item is
\* one that fetches
EmitsCounted(h) ==
    LET k == statsStreams'[h].emitted
        old == statsStreams[h].procs
        new == statsStreams'[h].procs
    IN /\ k = statsStreams[h].emitted + 1
       /\ IF Fetches(k) THEN new \in {old, 0, k} ELSE new = old
       /\ tasks' = Add(Remove(tasks, WaitStats(h)),
                       Task("statsMsg", h, k, new))

\* what the snapshot of stream becomes by its next item: a fetch that fails
\* keeps it, one that works replaces it, an item without fetch keeps it
SnapshotKept(stream) ==
    LET k == stream.emitted + 1
    IN /\ lastProcesses(stream, k, "fail") = stream.procs
       /\ lastProcesses(stream, k, "some") =
             IF Fetches(k) THEN k ELSE stream.procs
       /\ lastProcesses(stream, k, "empty") =
             IF Fetches(k) THEN 0 ELSE stream.procs

\* C33: the items of a stats stream are counted from 1; a snapshot is
\* fetched for item 1 and every tenth item and for no other; every item
\* carries the non-empty result of the stream's most recent successful
\* fetch, also when its own fetch failed or it fetched nothing; a new
\* stream starts at counter 0 without a snapshot.
C33_SnapshotEveryTenth ==
    /\ [](\A h \in DOMAIN statsStreams :
            /\ SnapshotKept(statsStreams[h])
            /\ statsStreams[h].procs \in
                  {0} \cup {j \in 1..statsStreams[h].emitted : Fetches(j)})
    /\ [][\A h \in DOMAIN statsStreams' :
             /\ Emits(h) => EmitsCounted(h)
             /\ h \notin DOMAIN statsStreams =>
                   statsStreams'[h].emitted = 0 /\ statsStreams'[h].procs = 0
         ]_vars

\* the eleventh item of the first stream is on its way with the snapshot
\* the tenth fetched, and the second stream has counted its first item and
\* fetched a snapshot of its own
C33_EleventhCarriesTenth ==
    /\ Len(statsStreams) = 2
    /\ statsStreams[1].emitted = 11 /\ statsStreams[1].procs = 10
    /\ statsStreams[2].emitted = 1 /\ statsStreams[2].procs = 1
    /\ BagIn(Task("statsMsg", 1, 11, 10), tasks)

---------------------------------------------------------------------------
(* Properties of list results *)

\* the (ID, state) pairs of a list, position by position
Pairs(list) == [i \in DOMAIN list |-> <<list[i].ID, list[i].State>>]

\* C34: a successful list result replaces the snapshot; the lifecycle
\* transition is re-run on it exactly when the (ID, state) pairs of the new
\* list differ from the old ones in number or at some position; a list with
\* the same pairs opens and cancels no stream, starts no waiter and leaves
\* every buffer as it is.
C34_LifecycleOnlyOnChange ==
    [][ContainersMsg(OneContainerLists) =>
          LET shown == [m EXCEPT !.loading = FALSE,
                                 !.containers = m'.containers,
                                 !.cursor = m'.cursor]
              rerun == updateStatsAndLogsForCursor(shown, statsStreams,
                                                   logStreams)
              added == tasks' (-) tasks
          IN IF Pairs(m'.containers) # Pairs(m.containers)
             THEN /\ m' = rerun.m
                  /\ statsStreams' = rerun.ss
                  /\ logStreams' = rerun.ls
                  /\ added = AddAll(EmptyBag, rerun.cmds)
             ELSE /\ m' = shown
                  /\ UNCHANGED <<statsStreams, logStreams>>
                  /\ added = EmptyBag
                  /\ m'.logs = m.logs /\ m'.logsScroll = m.logsScroll
                  /\ m'.cpuHistory = m.cpuHistory
                  /\ m'.memoryHistory = m.memoryHistory]_vars

\* the R key was pressed and every list result has been handled, the last
\* of them with the pairs of the list shown: the streams opened by the
\* first result are still the Model's and the log line is still shown
C34_SameListKeepsStreams ==
    /\ m.message = "Refreshing..." /\ ~m.loading
    /\ Count({"fetch"}) = 0
    /\ Len(statsStreams) = 1 /\ m.statsCancel = 1
    /\ ~statsStreams[1].cancelled
    /\ Len(logStreams) = 1 /\ m.logsCancel = 1
    /\ Len(m.logs) = 1

\* C35: a lifecycle re-evaluation that finds the container selected before
\* (the same ID) under the cursor leaves the log buffer, the scroll offset,
\* the auto-scroll flag, both histories and the process snapshot as they
\* are, and the log stream too: besides the list and the cursor only the
\* stats stream, its handle and channel and the current sample change.
C35_SameContainerKeepsBuffers ==
    [][(Reevaluated /\ Selected(m').ID = m.currentContainerID) =>
          /\ m'.logs = m.logs
          /\ m'.logsScroll = m.logsScroll
          /\ m'.logsAutoScroll = m.logsAutoScroll
          /\ m'.cpuHistory = m.cpuHistory
          /\ m'.memoryHistory = m.memoryHistory
          /\ m'.currentProcesses = m.currentProcesses
          /\ m' = [m EXCEPT !.containers = m'.containers,
                            !.cursor = m'.cursor,
                            !.loading = m'.loading,
                            !.statsCancel = m'.statsCancel,
                            !.statsChan = m'.statsChan,
                            !.currentStats = m'.currentStats]
          /\ logStreams' = logStreams]_vars

\* the selected container stopped after a sample and a log line of it had
\* been applied: its stats stream is cancelled, the line, the graph and the
\* process snapshot are still there
C35_StoppedKeepsBuffers ==
    /\ Len(m.containers) > 0
    /\ Selected(m).ID = m.currentContainerID
    /\ Selected(m).State = "exited"
    /\ m.statsCancel = Nil /\ Len(statsStreams) > 0
    /\ \A h \in DOMAIN statsStreams : statsStreams[h].cancelled
    /\ Len(m.logs) > 0 /\ m.cpuHistory # Zeros
    /\ m.currentProcesses # Nil

---------------------------------------------------------------------------
(* Properties of ended streams *)

\* every stream of streams has ended: its producer has returned
AllEnded(streams) ==
    Len(streams) > 0 /\ \A h \in DOMAIN streams : streams[h].closed

\* this step is not Update handling a message of the kind type
Silent(type) == \A msg \in Waiting(type) : ~Handles(msg)

\* C36: once the streams of a kind have all ended and none is opened any
\* more, Update sooner or later handles no further message of that kind.
C36_EndedStreamGoesQuiet ==
    /\ (<>[]AllEnded(statsStreams)) => <>[][Silent("statsMsg")]_vars
    /\ (<>[]AllEnded(logStreams)) => <>[][Silent("logsMsg")]_vars

\* the log half of C36 alone
C36_EndedLogStreamGoesQuiet ==
    (<>[]AllEnded(logStreams)) => <>[][Silent("logsMsg")]_vars

---------------------------------------------------------------------------
(* Properties of the waiters *)

\* C37: at any time at most one waiter is pending on the stats channels and
\* at most one on the log channels.
C37_OneWaiterPerKind ==
    /\ Count({"waitStats"}) <= 1
    /\ Count({"waitLogs"}) <= 1

\* the weaker reading of C37: no stream has two waiters at a time
C37_OneWaiterPerStream ==
    /\ \A h \in DOMAIN statsStreams : CopiesIn(WaitStats(h), tasks) <= 1
    /\ \A h \in DOMAIN logStreams : CopiesIn(WaitLogs(h), tasks) <= 1

---------------------------------------------------------------------------
(* Properties of attribution *)

\* the entries handed to the store so far that it still has: queued,
\* buffered by the writer, or persisted
Stored == writeChan \o store.buffer \o store.rows

\* C38: every StatsEntry handed to the store names the container whose
\* stream emitted its sample, and every line of the log buffer and every
\* point of the two histories comes from a stream of the container that is
\* selected.
C38_ItemsOfTheirContainer ==
    /\ \A i \in DOMAIN Stored :
          Stored[i].ContainerID = statsStreams[Stored[i].src].id
    /\ \A i \in DOMAIN m.logs :
          logStreams[m.logs[i].src].id = m.currentContainerID
    /\ \A i \in DOMAIN m.cpuHistory :
          m.cpuHistory[i] # 0 =>
             statsStreams[PointSrc(m.cpuHistory[i])].id = m.currentContainerID
    /\ \A i \in DOMAIN m.memoryHistory :
          m.memoryHistory[i] # 0 =>
             statsStreams[PointSrc(m.memoryHistory[i] - 100)].id
                = m.currentContainerID

---------------------------------------------------------------------------
(* Properties of concurrent list requests *)

\* C39: Update stores every list result it handles, so the snapshot is the
\* result of the most recently issued fetch only if no result of a fetch
\* issued earlier is handled after it: the result of a fetch that was
\* started while another was running is never handled while that other
\* one's result is still to come.
C39_LatestFetchWins ==
    [][Handles(LaterFetch) => ~BagIn(Fetch, tasks)]_vars

---------------------------------------------------------------------------
(* Properties of closing the store *)

\* the entry is a row of container_stats
Persisted(entry) == \E i \in DOMAIN store.rows' : store.rows'[i] = entry

\* this step is Close returning: "return s.db.Close()"
CloseReturned == store.dbClosed' /\ ~store.dbClosed

\* the entries Write accepted that the store has not dropped: those still in
\* the queue and those in the writer's buffer (every other one is a row)
Unwritten == writeChan' \o store.buffer'

\* C40: when Close returns, every entry Write had accepted is a persisted
\* row, those still waiting in the queue included.
C40_AcceptedPersistedAtClose ==
    [][CloseReturned =>
          \A i \in DOMAIN Unwritten : Persisted(Unwritten[i])]_vars

\* C40 for a writer that was quick: it had returned from its final flush
\* before Close closed the database
C40_QueuePersistedAfterFinalFlush ==
    [][(CloseReturned /\ store.writerDone) =>
          \A i \in DOMAIN Unwritten : Persisted(Unwritten[i])]_vars

=============================================================================
